---- MODULE Spec2Model ----
(***************************************************************************)
(* Session-orchestration and transport layer of the contact-center agent.  *)
(*                                                                         *)
(*  - WebSocketManager (src/utils/websocket_manager.py): caller threads    *)
(*    run register / connect / disconnect / queue_message against the two  *)
(*    maps, statement by statement, under the manager's Lock.              *)
(*  - Persistent event loop (src/routes/chat.py): get_event_loop,          *)
(*    run_async and initialize_supervisor.                                 *)
(*  - Chat endpoint (src/routes/chat.py, src/routes/auth.py) and the       *)
(*    supervisor proxy with its classifier and fallback loop               *)
(*    (src/agents/supervisor_agent.py).                                    *)
(*  - Tool client (src/agents/mongo_mcp_client.py): the shared tool list   *)
(*    and MongoMCPClient's get_tools / get_all_tools / close.              *)
(***************************************************************************)
EXTENDS Integers, Sequences, FiniteSets, TLC

\* ------------------------------------------------------------------ bounds
\* Total number of queue_message calls made in one behaviour.
MaxMsgs == 3
\* Total number of initialize_supervisor calls made in one behaviour.
MaxInitCalls == 3

\* Total number of chat requests received in one behaviour.
MaxRequests == 1

Sessions == {"s1", "s2"}
Transports == {"ws1", "ws2"}
Threads == {"th1", "th2"}
None == "None"
\* The session tokens login hands out; a chat request's thread id is its token.
Tokens == {"tok1", "tok2"}

\* ------------------------------------------------- WebSocketManager: data
QUEUEABLE_MESSAGE_TYPES == {"message", "stream", "final", "data"}
\* The control kinds, which are not queued.
ControlTypes == {"connected", "pong", "error", "complete"}
\* Types the callers of the model pass to queue_message: one queueable, one control.
MsgTypes == {"message", "error"}

VARIABLES
    active_connections,  \* session -> transport, None when the key is absent
    message_queue,       \* session -> list of queued messages (<<>> when absent)
    lock,                \* the thread holding self._lock, or None
    pc,                  \* thread -> position inside the manager method it runs
    call,                \* thread -> the arguments of the method it runs
    lst,                 \* thread -> the list queue_message fetched from the dict
    nextId,              \* payload of the next message passed to queue_message
    accepted,            \* history: session -> messages appended, in append order
    batches,             \* history: session -> concatenation of connect's batches
    window,              \* history: session -> one record per disconnect since its last connect
    last,                \* history: the last call that changed or returned something
    strayed              \* history: a message was once queued beside a bound transport

wsVars == <<active_connections, message_queue, lock, pc, call, lst, nextId,
            accepted, batches, window, last, strayed>>

NoCall == [s |-> None, ws |-> None, m |-> None]
NoEvent == [op |-> "none", s |-> None, m |-> None, qBefore |-> <<>>, ret |-> None,
            wins |-> {}]

\* __init__: both maps empty, the lock free.
WSInit ==
    /\ active_connections = [s \in Sessions |-> None]
    /\ message_queue = [s \in Sessions |-> <<>>]
    /\ lock = None
    /\ pc = [t \in Threads |-> "idle"]
    /\ call = [t \in Threads |-> NoCall]
    /\ lst = [t \in Threads |-> <<>>]
    /\ nextId = 1
    /\ accepted = [s \in Sessions |-> <<>>]
    /\ batches = [s \in Sessions |-> <<>>]
    /\ window = [s \in Sessions |-> {}]
    /\ last = NoEvent
    /\ strayed = FALSE

\* ---------------------------------------------- WebSocketManager: readers
get_connection(s) == active_connections[s]
has_connection(s) == active_connections[s] # None
get_queued_count(s) == Len(message_queue[s])
get_active_sessions == {s \in Sessions : active_connections[s] # None}

\* ------------------------------------------------ WebSocketManager: lock
\* `with self._lock:` is entered only while no thread holds the lock. A thread
\* that has called a method and waits for the lock has changed nothing yet, so
\* the call and the acquisition are one step.
\* Variant: the lock excludes nobody.
LockFree_NoExclusion == TRUE

LockFree == lock = None

\* History only. qBefore: the session's queue when the call began; wins: the
\* disconnects (what was queued at each, what was appended after each) that the
\* call, a connect, closes.
Event(op, s, m, r) ==
    [op |-> op, s |-> s, m |-> m, qBefore |-> message_queue[s], ret |-> r,
     wins |-> IF op = "connect" THEN window[s] ELSE {}]

\* ------------------------------------------------------------ register
\* Variant: register flushes the queue as connect does.
RegisterQueue_Flush(q) == <<>>

\* What register does to the queue of its session: nothing.
RegisterQueue(q) == q

\* The whole body is one statement under the lock.
Register(t, s, ws) ==
    /\ pc[t] = "idle"
    /\ LockFree
    /\ active_connections' = [active_connections EXCEPT ![s] = ws]
    /\ message_queue' = [message_queue EXCEPT ![s] = RegisterQueue(@)]
    /\ last' = Event("register", s, None, None)
    /\ strayed' = (strayed \/ message_queue[s] # <<>>)
    /\ UNCHANGED <<lock, pc, call, lst, nextId, accepted, batches, window>>

\* ------------------------------------------------------------- connect
\* Line 54, under the lock.
ConnectBind(t, s, ws) ==
    /\ pc[t] = "idle"
    /\ LockFree
    /\ lock' = t
    /\ active_connections' = [active_connections EXCEPT ![s] = ws]
    /\ call' = [call EXCEPT ![t] = [s |-> s, ws |-> ws, m |-> None]]
    /\ last' = Event("bind", s, None, None)
    /\ pc' = [pc EXCEPT ![t] = "con_pop"]
    /\ UNCHANGED <<message_queue, lst, nextId, accepted, batches, window, strayed>>

\* self._message_queue.pop(session_id, []): the value returned, the value left.
PopReturned(q) == q

\* Variant: the queue is read but not removed.
PopLeft_Keep(q) == q

PopLeft(q) == <<>>

\* Lines 58-61: pop, return, leave the lock; the caller goes on at `next`.
ConnectPopTo(t, next) ==
    /\ pc[t] = "con_pop"
    /\ LET s == call[t].s
           queued == PopReturned(message_queue[s])
       IN /\ message_queue' = [message_queue EXCEPT ![s] = PopLeft(@)]
          /\ batches' = [batches EXCEPT ![s] = @ \o queued]
          /\ window' = [window EXCEPT ![s] = {}]
          /\ last' = Event("connect", s, None, queued)
    /\ lock' = None
    /\ pc' = [pc EXCEPT ![t] = next]
    /\ call' = [call EXCEPT ![t] = IF next = "idle" THEN NoCall ELSE @]
    /\ UNCHANGED <<active_connections, lst, nextId, accepted, strayed>>

ConnectPop(t) == ConnectPopTo(t, "idle")

\* ---------------------------------------------------------- disconnect
\* Variant: the binding is not deleted.
DisconnectBinding_Keep(ws) == ws

\* `del self.active_connections[session_id]`
DisconnectBinding(ws) == None

\* Variant: disconnect drops what is queued for the session.
DisconnectQueue_Drop(q) == <<>>

\* What disconnect does to the queue of its session: nothing.
DisconnectQueue(q) == q

Disconnect(t, s) ==
    /\ pc[t] = "idle"
    /\ LockFree
    /\ active_connections' =
          [active_connections EXCEPT ![s] = IF @ # None THEN DisconnectBinding(@) ELSE @]
    /\ message_queue' = [message_queue EXCEPT ![s] = DisconnectQueue(@)]
    /\ window' = [window EXCEPT ![s] = @ \cup {[atDisc |-> message_queue[s], since |-> <<>>]}]
    /\ last' = Event("disconnect", s, None, None)
    /\ UNCHANGED <<lock, pc, call, lst, nextId, accepted, batches, strayed>>

\* ------------------------------------------------------- queue_message
\* Variant: the type test is left out.
IsQueueable_Any(type) == TRUE

IsQueueable(type) == type \in QUEUEABLE_MESSAGE_TYPES

\* Lines 72-73 with a type outside QUEUEABLE_MESSAGE_TYPES: return, no lock taken.
QueueSkip(t, s, type) ==
    /\ pc[t] = "idle"
    /\ nextId <= MaxMsgs
    /\ ~IsQueueable(type)
    /\ nextId' = nextId + 1
    /\ last' = Event("queue_skip", s, [type |-> type, id |-> nextId], None)
    /\ UNCHANGED <<active_connections, message_queue, lock, pc, call, lst,
                   accepted, batches, window, strayed>>

\* self._message_queue[session_id], under the lock: the defaultdict hands out
\* the session's list.
QueueGetOf(t, s, m) ==
    /\ IsQueueable(m.type)
    /\ LockFree
    /\ lock' = t
    /\ call' = [call EXCEPT ![t] = [s |-> s, ws |-> None, m |-> m]]
    /\ lst' = [lst EXCEPT ![t] = message_queue[s]]
    /\ pc' = [pc EXCEPT ![t] = "q_append"]
    /\ UNCHANGED <<active_connections, message_queue, accepted, batches, window, last,
                   strayed>>

QueueGet(t, s, type) ==
    /\ pc[t] = "idle"
    /\ nextId <= MaxMsgs
    /\ nextId' = nextId + 1
    /\ QueueGetOf(t, s, [type |-> type, id |-> nextId])

\* Variant: insert(0, message).
ListAppend_Front(l, m) == <<m>> \o l

\* list.append(message)
ListAppend(l, m) == Append(l, m)

\* .append(message), then leave the lock.
QueueAppend(t) ==
    /\ pc[t] = "q_append"
    /\ LET s == call[t].s
           m == call[t].m
       IN /\ message_queue' = [message_queue EXCEPT ![s] = ListAppend(lst[t], m)]
          /\ accepted' = [accepted EXCEPT ![s] = Append(@, m)]
          /\ window' = [window EXCEPT ![s] =
                {[w EXCEPT !.since = Append(@, m)] : w \in @}]
          /\ last' = Event("queue", s, m, None)
          /\ strayed' = (strayed \/ has_connection(s))
    /\ lst' = [lst EXCEPT ![t] = <<>>]
    /\ lock' = None
    /\ pc' = [pc EXCEPT ![t] = "idle"]
    /\ call' = [call EXCEPT ![t] = NoCall]
    /\ UNCHANGED <<active_connections, nextId, batches>>

\* ------------------------------------------- callers of the manager
\* The streaming endpoint and the senders are not among the source files; they
\* follow the connection manager's contract (spec 4.3): a reconnecting handler
\* calls connect and replays the returned batch on the new transport; a sender
\* looks the transport up and delivers on it, or queues the message.
VARIABLES
    wire,      \* session -> ids of the messages put on its transport, in order
    pending,   \* thread -> what is left to replay of the batch connect returned
    mark,      \* thread -> nextId when connect returned to this handler
    out        \* thread -> the message a sender is delivering or queueing

flowVars == <<wire, pending, mark, out>>

FlowInit ==
    /\ wire = [s \in Sessions |-> <<>>]
    /\ pending = [t \in Threads |-> <<>>]
    /\ mark = [t \in Threads |-> 0]
    /\ out = [t \in Threads |-> NoCall]

\* Each handler thread serves the transport its client arrived on.
SocketOf(t) == IF t = "th1" THEN "ws1" ELSE "ws2"

HandlerConnect(t, s) == ConnectBind(t, s, SocketOf(t)) /\ UNCHANGED flowVars

HandlerConnectReturn(t) ==
    /\ ConnectPopTo(t, "replay")
    /\ pending' = [pending EXCEPT ![t] = last'.ret]
    /\ mark' = [mark EXCEPT ![t] = nextId]
    /\ UNCHANGED <<wire, out>>

\* One message of the batch goes on the wire; after the last, the handler is done.
HandlerReplay(t) ==
    /\ pc[t] = "replay"
    /\ IF pending[t] = <<>>
       THEN /\ pc' = [pc EXCEPT ![t] = "idle"]
            /\ call' = [call EXCEPT ![t] = NoCall]
            /\ mark' = [mark EXCEPT ![t] = 0]
            /\ UNCHANGED <<wire, pending>>
       ELSE /\ wire' = [wire EXCEPT ![call[t].s] = Append(@, Head(pending[t]).id)]
            /\ pending' = [pending EXCEPT ![t] = Tail(@)]
            /\ UNCHANGED <<pc, call, mark>>
    /\ UNCHANGED <<active_connections, message_queue, lock, lst, nextId,
                   accepted, batches, window, last, strayed, out>>

HandlerDisconnect(t, s) == Disconnect(t, s) /\ UNCHANGED flowVars

\* send_or_queue, first half: get_connection(session_id), which takes no lock.
SendLookup(t, s, type) ==
    /\ pc[t] = "idle"
    /\ nextId <= MaxMsgs
    /\ nextId' = nextId + 1
    /\ out' = [out EXCEPT ![t] = [s |-> s, ws |-> get_connection(s),
                                   m |-> [type |-> type, id |-> nextId]]]
    /\ pc' = [pc EXCEPT ![t] = IF get_connection(s) # None THEN "send_live" ELSE "send_queue"]
    /\ UNCHANGED <<active_connections, message_queue, lock, call, lst,
                   accepted, batches, window, last, strayed, wire, pending, mark>>

\* A transport was bound: deliver on it.
SendLive(t) ==
    /\ pc[t] = "send_live"
    /\ wire' = [wire EXCEPT ![out[t].s] = Append(@, out[t].m.id)]
    /\ out' = [out EXCEPT ![t] = NoCall]
    /\ pc' = [pc EXCEPT ![t] = "idle"]
    /\ UNCHANGED <<active_connections, message_queue, lock, call, lst, nextId,
                   accepted, batches, window, last, strayed, pending, mark>>

\* No transport was bound: queue_message, which drops a control message.
SendQueue(t) ==
    /\ pc[t] = "send_queue"
    /\ out' = [out EXCEPT ![t] = NoCall]
    /\ IF IsQueueable(out[t].m.type)
       THEN QueueGetOf(t, out[t].s, out[t].m)
       ELSE /\ pc' = [pc EXCEPT ![t] = "idle"]
            /\ UNCHANGED <<active_connections, message_queue, lock, call, lst,
                           accepted, batches, window, last, strayed>>
    /\ UNCHANGED <<nextId, wire, pending, mark>>

SendQueueAppend(t) == QueueAppend(t) /\ UNCHANGED flowVars

\* ------------------------------------------- persistent event loop
\* routes/chat.py: module globals and the threads that run get_event_loop,
\* run_async and initialize_supervisor, one statement per step.
VARIABLES
    loop,          \* _loop: 0 for None, or the number of the loop object it names
    loop_thread,   \* _loop_thread: 0 for None, or the number of the thread object
    supervisor,    \* _supervisor: 0 for None, or the number of the agent set built
    initialized,   \* _initialized
    init_lock,     \* the thread holding _init_lock, or None
    loops,         \* history: event loops created so far
    loopThreads,   \* history: loop threads started so far
    builds,        \* history: agent sets built so far
    initCalls,     \* history: initialize_supervisor calls made so far
    bpc,           \* thread -> position inside the function it runs
    entry,         \* thread -> the function it called, and force_reinit
    got            \* thread -> the loop get_event_loop returned to it

loopVars == <<loop, loop_thread, supervisor, initialized, init_lock, loops,
              loopThreads, builds, initCalls, bpc, entry, got>>

\* The coroutines handed to the loop, their futures, and the lazy instances of
\* agents/supervisor_agent.py that get_supervisor_agent fills.
VARIABLES
    co,               \* thread -> the coroutine it passed to run_async, as the
                      \*   point the loop resumes it at
    future,           \* thread -> the future its run_async call holds
    ret,              \* thread -> what its last call returned or raised
    model,            \* _model: 0 for None, or the number of the model object
    data_agent,       \* _data_agent: 0 for None, or the number of the agent
    supervisor_agent, \* _supervisor_agent: 0 for None, or the proxy's number
    snap,             \* history: the globals when initialize_supervisor was
                      \*   last entered, and how that call ended
    forced,           \* history: some call passed force_reinit=True
    made              \* history: construction runs so far; the objects a run
                      \*   builds carry its number

taskVars == <<co, future, ret, model, data_agent, supervisor_agent, snap, forced,
              made>>

\* What the objects of agents/supervisor_agent.py are made of.
VARIABLES
    model_name,    \* supervisor_agent.model_name
    modelName,     \* model object -> the model name it was created with
    dataAgents,    \* data agent -> the model and the checkpointer it is bound to
    proxies,       \* proxy -> its _model, its _data_agent and its _supervisor
    checkpointer,  \* _checkpointer: the number of the MemorySaver it names
    saved          \* the thread ids that MemorySaver holds history for

agentVars == <<modelName, dataAgents, proxies, checkpointer, saved>>

NoEntry == [fn |-> None, force |-> FALSE]

NoFuture == [state |-> None, of |-> None, value |-> 0]

NoRet == [fn |-> None, kind |-> None, of |-> None, value |-> 0]

\* What a caller can pass to run_async: a coroutine that returns, one that
\* raises, and one that never completes.
Coroutines == {"returns", "raises", "never"}

\* The registry's entry: chat.py's _supervisor and _initialized, and the cached
\* _model, _data_agent and _supervisor_agent of supervisor_agent.py.
Globals == <<supervisor, initialized, model, data_agent, supervisor_agent>>

\* d with the entry k -> v.
Put(d, k, v) == [x \in DOMAIN d \cup {k} |-> IF x = k THEN v ELSE d[x]]

\* supervisor_agent.py lines 172, 193 and 262: checkpointer=_checkpointer.
BoundCheckpointer_Fresh == checkpointer + 1

BoundCheckpointer == checkpointer

\* get_model, lines 161-163: ChatOpenAI(model=model_name).
\* Variant: the model is created with the configured name.
ModelMade_Configured(n) == Put(modelName, n, "gpt-5-mini")

ModelMade(n) == Put(modelName, n, model_name)

\* get_data_agent, line 172: the agent is created on model m.
DataAgentMade(n, m) ==
    Put(dataAgents, n, [model |-> m, checkpointer |-> BoundCheckpointer])

\* lines 189-193 and 205-213: the supervisor compiled on model m, and the
\* fields of a proxy around it.
ProxyFields(m, da) ==
    [model |-> m, data_agent |-> da,
     supervisor |-> [model |-> m, checkpointer |-> BoundCheckpointer]]

\* The maps hold the objects still in use: those the module globals m (_model),
\* d (_data_agent) and the proxies ps name, and those they are made of.
InUse(f, ids) == [x \in DOMAIN f \cap ids |-> f[x]]

HeapInUse(mn, da, px, m, d, ps) ==
    LET pIds == ps \cap DOMAIN px
        dIds == ({d} \cup {px[x].data_agent : x \in pIds}) \cap DOMAIN da
        mIds == ({m} \cup {px[x].model : x \in pIds} \cup {da[x].model : x \in dIds})
                   \cap DOMAIN mn
    IN  [modelName |-> InUse(mn, mIds), dataAgents |-> InUse(da, dIds),
         proxies |-> InUse(px, pIds)]

\* line 80: _checkpointer = MemorySaver(), at import.
AgentInit ==
    /\ modelName = <<>>
    /\ dataAgents = <<>>
    /\ proxies = <<>>
    /\ checkpointer = 1
    /\ saved = {}

LoopInit ==
    /\ loop = 0
    /\ loop_thread = 0
    /\ supervisor = 0
    /\ initialized = FALSE
    /\ init_lock = None
    /\ loops = 0
    /\ loopThreads = 0
    /\ builds = 0
    /\ initCalls = 0
    /\ bpc = [t \in Threads |-> "idle"]
    /\ entry = [t \in Threads |-> NoEntry]
    /\ got = [t \in Threads |-> 0]
    /\ co = [t \in Threads |-> None]
    /\ future = [t \in Threads |-> NoFuture]
    /\ ret = [t \in Threads |-> NoRet]
    /\ model = 0
    /\ data_agent = 0
    /\ supervisor_agent = 0
    /\ snap = [before |-> <<0, FALSE, 0, 0, 0>>, outcome |-> None]
    /\ forced = FALSE
    /\ made = 0

\* A caller thread enters get_event_loop or run_async directly.
CallGetEventLoop(t) ==
    /\ bpc[t] = "idle"
    /\ bpc' = [bpc EXCEPT ![t] = "gel_check"]
    /\ entry' = [entry EXCEPT ![t] = [fn |-> "get_event_loop", force |-> FALSE]]
    /\ UNCHANGED <<loop, loop_thread, supervisor, initialized, init_lock, loops,
                   loopThreads, builds, initCalls, got>>
    /\ UNCHANGED taskVars

CallRunAsync(t, c) ==
    /\ bpc[t] = "idle"
    /\ bpc' = [bpc EXCEPT ![t] = "gel_check"]
    /\ entry' = [entry EXCEPT ![t] = [fn |-> "run_async", force |-> FALSE]]
    /\ co' = [co EXCEPT ![t] = c]
    /\ UNCHANGED <<loop, loop_thread, supervisor, initialized, init_lock, loops,
                   loopThreads, builds, initCalls, got>>
    /\ UNCHANGED <<future, ret, model, data_agent, supervisor_agent, snap, forced, made>>

\* get_event_loop, line 143: `if _loop is None:`
GelCheck(t) ==
    /\ bpc[t] = "gel_check"
    /\ bpc' = [bpc EXCEPT ![t] = IF loop = 0 THEN "gel_new" ELSE "gel_return"]
    /\ UNCHANGED <<loop, loop_thread, supervisor, initialized, init_lock, loops,
                   loopThreads, builds, initCalls, entry, got>>
    /\ UNCHANGED taskVars

\* line 144: `_loop = asyncio.new_event_loop()`
GelNew(t) ==
    /\ bpc[t] = "gel_new"
    /\ loops' = loops + 1
    /\ loop' = loops + 1
    /\ bpc' = [bpc EXCEPT ![t] = "gel_thread"]
    /\ UNCHANGED <<loop_thread, supervisor, initialized, init_lock,
                   loopThreads, builds, initCalls, entry, got>>
    /\ UNCHANGED taskVars

\* lines 145-146: the thread object is created and started.
GelThread(t) ==
    /\ bpc[t] = "gel_thread"
    /\ loopThreads' = loopThreads + 1
    /\ loop_thread' = loopThreads + 1
    /\ bpc' = [bpc EXCEPT ![t] = "gel_return"]
    /\ UNCHANGED <<loop, supervisor, initialized, init_lock, loops,
                   builds, initCalls, entry, got>>
    /\ UNCHANGED taskVars

\* line 148: `return _loop`; the caller goes on where it called from. Inside
\* run_async (lines 153-154) the coroutine is handed to the loop and the caller
\* holds the future that run_coroutine_threadsafe made for it.
GelReturn(t) ==
    /\ bpc[t] = "gel_return"
    /\ got' = [got EXCEPT ![t] = loop]
    /\ bpc' = [bpc EXCEPT ![t] =
          IF entry[t].fn = "get_event_loop" THEN "idle" ELSE "run_wait"]
    /\ entry' = [entry EXCEPT ![t] = IF @.fn = "get_event_loop" THEN NoEntry ELSE @]
    /\ future' = [future EXCEPT ![t] =
          IF entry[t].fn = "get_event_loop" THEN @
          ELSE [state |-> "pending", of |-> None, value |-> 0]]
    /\ UNCHANGED <<loop, loop_thread, supervisor, initialized, init_lock, loops,
                   loopThreads, builds, initCalls>>
    /\ UNCHANGED <<co, ret, model, data_agent, supervisor_agent, snap, forced, made>>

\* The loop runs a caller's coroutine to its end and stores the outcome in the
\* future made for that coroutine. A coroutine that never completes has no
\* such step.
Settle(t, state, value) ==
    /\ future' = [future EXCEPT ![t] = [state |-> state, of |-> t, value |-> value]]
    /\ co' = [co EXCEPT ![t] = None]

CoroRun(t) ==
    /\ future[t].state = "pending"
    /\ co[t] \in {"returns", "raises"}
    /\ Settle(t, IF co[t] = "returns" THEN "result" ELSE "exception", 0)
    /\ UNCHANGED loopVars
    /\ UNCHANGED <<ret, model, data_agent, supervisor_agent, snap, forced, made>>

\* run_async, line 155: `return future.result()` on the caller's own future.
FutureOf_Shared(t) == future[CHOOSE u \in Threads : u # t]

FutureOf(t) == future[t]

Settled(t) == FutureOf(t).state \in {"result", "exception"}

\* line 155, run_async called directly: future.result() returns the
\* coroutine's result or raises its exception.
RunResult(t) ==
    /\ bpc[t] = "run_wait"
    /\ entry[t].fn = "run_async"
    /\ Settled(t)
    /\ ret' = [ret EXCEPT ![t] = [fn |-> "run_async", kind |-> FutureOf(t).state,
                                  of |-> FutureOf(t).of, value |-> FutureOf(t).value]]
    /\ future' = [future EXCEPT ![t] = NoFuture]
    /\ bpc' = [bpc EXCEPT ![t] = "idle"]
    /\ entry' = [entry EXCEPT ![t] = NoEntry]
    /\ UNCHANGED <<loop, loop_thread, supervisor, initialized, init_lock, loops,
                   loopThreads, builds, initCalls, got>>
    /\ UNCHANGED <<co, model, data_agent, supervisor_agent, snap, forced, made>>

\* initialize_supervisor, line 168: `with _init_lock:`
InitLockFree_NoExclusion == TRUE

InitLockFree == init_lock = None

CallInitializeSupervisor(t, force) ==
    /\ bpc[t] = "idle"
    /\ initCalls < MaxInitCalls
    /\ InitLockFree
    /\ init_lock' = t
    /\ initCalls' = initCalls + 1
    /\ entry' = [entry EXCEPT ![t] = [fn |-> "initialize_supervisor", force |-> force]]
    /\ bpc' = [bpc EXCEPT ![t] = "init_check"]
    /\ snap' = [before |-> Globals, outcome |-> "running"]
    /\ forced' = (forced \/ force)
    /\ UNCHANGED <<loop, loop_thread, supervisor, initialized, loops,
                   loopThreads, builds, got>>
    /\ UNCHANGED <<co, future, ret, model, data_agent, supervisor_agent, made>>

\* line 176, in the force branch: `_initialized = False`.
\* Variant: the flag is left as it was.
ForcedInitialized_Keep(b) == b

ForcedInitialized(b) == FALSE

\* lines 169-187: return the cached supervisor, or (forced) drop it and the
\* cached instances of supervisor_agent.py, then go on to
\* run_async(get_supervisor_agent()).
InitCheck(t) ==
    /\ bpc[t] = "init_check"
    /\ IF initialized /\ ~entry[t].force
       THEN /\ init_lock' = None
            /\ bpc' = [bpc EXCEPT ![t] = "idle"]
            /\ entry' = [entry EXCEPT ![t] = NoEntry]
            /\ ret' = [ret EXCEPT ![t] = [fn |-> "initialize_supervisor",
                          kind |-> "result", of |-> t, value |-> supervisor]]
            /\ snap' = [snap EXCEPT !.outcome = "returned"]
            /\ UNCHANGED <<supervisor, initialized, co, model, data_agent,
                           supervisor_agent, made>>
       ELSE /\ supervisor' = IF entry[t].force THEN 0 ELSE supervisor
            /\ initialized' = IF entry[t].force THEN ForcedInitialized(initialized)
                              ELSE initialized
            /\ supervisor_agent' = IF entry[t].force THEN 0 ELSE supervisor_agent
            /\ data_agent' = IF entry[t].force THEN 0 ELSE data_agent
            /\ model' = IF entry[t].force THEN 0 ELSE model
            /\ co' = [co EXCEPT ![t] = "sv_check"]
            /\ made' = made + 1
            /\ bpc' = [bpc EXCEPT ![t] = "gel_check"]
            /\ UNCHANGED <<init_lock, entry, ret, snap>>
    /\ UNCHANGED <<loop, loop_thread, loops, loopThreads, builds, initCalls, got>>
    /\ UNCHANGED <<future, forced>>

\* get_supervisor_agent on the loop, lines 179-180 of supervisor_agent.py:
\* the cached proxy is returned if there is one.
SvCheck(t) ==
    /\ future[t].state = "pending"
    /\ co[t] = "sv_check"
    /\ IF supervisor_agent # 0
       THEN Settle(t, "result", supervisor_agent)
       ELSE /\ co' = [co EXCEPT ![t] = "sv_model"]
            /\ UNCHANGED future
    /\ UNCHANGED loopVars
    /\ UNCHANGED <<ret, model, data_agent, supervisor_agent, snap, forced, made>>

\* line 184, get_model (159-164): the model is created and cached, or the
\* constructor raises.
SvModel(t, ok) ==
    /\ future[t].state = "pending"
    /\ co[t] = "sv_model"
    /\ IF model # 0 \/ ok
       THEN /\ model' = IF model = 0 THEN made ELSE model
            /\ modelName' = IF model = 0 THEN ModelMade(made) ELSE modelName
            /\ co' = [co EXCEPT ![t] = "sv_data"]
            /\ UNCHANGED future
       ELSE /\ Settle(t, "exception", 0)
            /\ UNCHANGED <<model, modelName>>
    /\ UNCHANGED <<dataAgents, proxies, checkpointer, saved>>
    /\ UNCHANGED loopVars
    /\ UNCHANGED <<ret, data_agent, supervisor_agent, snap, forced, made>>

\* line 185, get_data_agent (167-173): the data agent is created and cached,
\* or create_data_agent raises.
SvData(t, ok) ==
    /\ future[t].state = "pending"
    /\ co[t] = "sv_data"
    /\ IF data_agent # 0 \/ ok
       THEN /\ data_agent' = IF data_agent = 0 THEN made ELSE data_agent
            /\ dataAgents' = IF data_agent = 0 THEN DataAgentMade(made, model)
                              ELSE dataAgents
            /\ co' = [co EXCEPT ![t] = "sv_compile"]
            /\ UNCHANGED future
       ELSE /\ Settle(t, "exception", 0)
            /\ UNCHANGED <<data_agent, dataAgents>>
    /\ UNCHANGED <<modelName, proxies, checkpointer, saved>>
    /\ UNCHANGED loopVars
    /\ UNCHANGED <<ret, model, supervisor_agent, snap, forced, made>>

\* lines 187-193 and 278-279: the prompt is loaded and the graph compiled, the
\* proxy is built, cached and returned; or load_prompt or create_supervisor
\* raises.
SvCompile(t, ok) ==
    /\ future[t].state = "pending"
    /\ co[t] = "sv_compile"
    /\ IF ok
       THEN /\ supervisor_agent' = made
            /\ proxies' = Put(proxies, made, ProxyFields(model, data_agent))
            /\ builds' = builds + 1
            /\ Settle(t, "result", made)
       ELSE /\ Settle(t, "exception", 0)
            /\ UNCHANGED <<supervisor_agent, builds, proxies>>
    /\ UNCHANGED <<modelName, dataAgents, checkpointer, saved>>
    /\ UNCHANGED <<loop, loop_thread, supervisor, initialized, init_lock, loops,
                   loopThreads, initCalls, bpc, entry, got>>
    /\ UNCHANGED <<ret, model, data_agent, snap, forced, made>>

\* chat.py lines 188-191: run_async returned the proxy.
InitBuilt(t) ==
    /\ bpc[t] = "run_wait"
    /\ entry[t].fn = "initialize_supervisor"
    /\ FutureOf(t).state = "result"
    /\ supervisor' = FutureOf(t).value
    /\ initialized' = TRUE
    /\ init_lock' = None
    /\ ret' = [ret EXCEPT ![t] = [fn |-> "initialize_supervisor", kind |-> "result",
                                  of |-> FutureOf(t).of, value |-> FutureOf(t).value]]
    /\ future' = [future EXCEPT ![t] = NoFuture]
    /\ snap' = [snap EXCEPT !.outcome = "returned"]
    /\ bpc' = [bpc EXCEPT ![t] = "idle"]
    /\ entry' = [entry EXCEPT ![t] = NoEntry]
    /\ UNCHANGED <<loop, loop_thread, loops, loopThreads, builds, initCalls, got>>
    /\ UNCHANGED <<co, model, data_agent, supervisor_agent, forced, made>>

\* lines 192-194: run_async raised; the exception leaves the lock and the
\* function.
InitFailed(t) ==
    /\ bpc[t] = "run_wait"
    /\ entry[t].fn = "initialize_supervisor"
    /\ FutureOf(t).state = "exception"
    /\ init_lock' = None
    /\ ret' = [ret EXCEPT ![t] = [fn |-> "initialize_supervisor",
                  kind |-> "exception", of |-> FutureOf(t).of, value |-> 0]]
    /\ future' = [future EXCEPT ![t] = NoFuture]
    /\ snap' = [snap EXCEPT !.outcome = "raised"]
    /\ bpc' = [bpc EXCEPT ![t] = "idle"]
    /\ entry' = [entry EXCEPT ![t] = NoEntry]
    /\ UNCHANGED <<loop, loop_thread, supervisor, initialized, loops, loopThreads,
                   builds, initCalls, got>>
    /\ UNCHANGED <<co, model, data_agent, supervisor_agent, forced, made>>

\* The caller of run_async leaves future.result().
LeaveWait(t) == RunResult(t) \/ InitBuilt(t) \/ InitFailed(t)

\* ---------------------------------------------------------------------------
\* agents/supervisor_agent.py: the routing classifier is_db_query and the
\* per-thread routing state.  An utterance is the sequence of its characters.
Digits == {"0", "1", "2", "3", "4", "5", "6", "7", "8", "9"}

LowerLetters ==
    {"a", "b", "c", "d", "e", "f", "g", "h", "i", "j", "k", "l", "m",
     "n", "o", "p", "q", "r", "s", "t", "u", "v", "w", "x", "y", "z"}

UpperLetters ==
    {"A", "B", "C", "D", "E", "F", "G", "H", "I", "J", "K", "L", "M",
     "N", "O", "P", "Q", "R", "S", "T", "U", "V", "W", "X", "Y", "Z"}

\* str.lower() on one character.
LowerChar(c) ==
    CASE c = "A" -> "a" [] c = "B" -> "b" [] c = "C" -> "c" [] c = "D" -> "d"
      [] c = "E" -> "e" [] c = "F" -> "f" [] c = "G" -> "g" [] c = "H" -> "h"
      [] c = "I" -> "i" [] c = "J" -> "j" [] c = "K" -> "k" [] c = "L" -> "l"
      [] c = "M" -> "m" [] c = "N" -> "n" [] c = "O" -> "o" [] c = "P" -> "p"
      [] c = "Q" -> "q" [] c = "R" -> "r" [] c = "S" -> "s" [] c = "T" -> "t"
      [] c = "U" -> "u" [] c = "V" -> "v" [] c = "W" -> "w" [] c = "X" -> "x"
      [] c = "Y" -> "y" [] c = "Z" -> "z" [] OTHER -> c

\* line 102: t = text.lower().
RECURSIVE LowerStr(_)
LowerStr(text) ==
    IF text = <<>> THEN <<>>
    ELSE <<LowerChar(Head(text))>> \o LowerStr(Tail(text))

\* The `in` operator on strings: p occurs in t.
OccursAt(t, p, i) == \A j \in 1..Len(p) : t[i + j - 1] = p[j]

Contains(t, p) == \E i \in 1..(Len(t) - Len(p) + 1) : OccursAt(t, p, i)

ContainsAny(t, ps) == \E p \in ps : Contains(t, p)

\* The regular-expression classes \w and \d, and the assertion \b before
\* position i (1 .. Len(t) + 1).
IsWordChar(c) == c \in Digits \cup LowerLetters \cup UpperLetters \cup {"_"}

WordEdge(t, i) ==
    (i > 1 /\ IsWordChar(t[i - 1])) # (i <= Len(t) /\ IsWordChar(t[i]))

\* \d{n} at position i, and [-/\.] at position i.
DigitsAt(t, i, n) == i + n - 1 <= Len(t) /\ \A k \in i..(i + n - 1) : t[k] \in Digits

SepAt(t, i) == i <= Len(t) /\ t[i] \in {"-", "/", "."}

\* \b \d{a..b} sep \d{c..d} sep \d{e..f} \b matches somewhere in t.
DateLike(t, an, bn, cn) ==
    \E i \in 1..Len(t), a \in an, b \in bn, c \in cn :
        /\ WordEdge(t, i)
        /\ DigitsAt(t, i, a)
        /\ SepAt(t, i + a)
        /\ DigitsAt(t, i + a + 1, b)
        /\ SepAt(t, i + a + 1 + b)
        /\ DigitsAt(t, i + a + b + 2, c)
        /\ WordEdge(t, i + a + b + 2 + c)

\* lines 105-109: follow_up_indicators.
FOLLOW_UP_INDICATORS ==
    {<<"t", "h", "o", "s", "e">>,   \* "those"
     <<"t", "h", "e", "m">>,   \* "them"
     <<"t", "h", "e", "s", "e">>,   \* "these"
     <<"t", "h", "a", "t">>,   \* "that"
     <<"t", "h", "e", " ", "s", "a", "m", "e">>,   \* "the same"
     <<"w", "h", "i", "c", "h", " ", "o", "n", "e", "s">>,   \* "which ones"
     <<"o", "f", " ", "t", "h", "e", "m">>,   \* "of them"
     <<"o", "f", " ", "t", "h", "o", "s", "e">>,   \* "of those"
     <<"f", "r", "o", "m", " ", "t", "h", "o", "s", "e">>,   \* "from those"
     <<"f", "r", "o", "m", " ", "t", "h", "e", "m">>,   \* "from them"
     <<"a", "m", "o", "n", "g", " ", "t", "h", "e", "m">>,   \* "among them"
     <<"o", "u", "t", " ", "o", "f">>,   \* "out of"
     <<"b", "r", "e", "a", "k", "d", "o", "w", "n">>,   \* "breakdown"
     <<"s", "p", "l", "i", "t">>,   \* "split"
     <<"c", "a", "t", "e", "g", "o", "r", "i", "z", "e">>,   \* "categorize"
     <<"g", "r", "o", "u", "p", " ", "b", "y">>}   \* "group by"

\* line 115: the alternatives of r"how many (of|are|were)\b".
HowManyForms ==
    {<<"h", "o", "w", " ", "m", "a", "n", "y", " ", "o", "f">>,   \* "how many of"
     <<"h", "o", "w", " ", "m", "a", "n", "y", " ", "a", "r", "e">>,   \* "how many are"
     <<"h", "o", "w", " ", "m", "a", "n", "y", " ", "w", "e", "r", "e">>}   \* "how many were"

\* line 125.
DateWords ==
    {<<"c", "a", "l", "l">>,   \* "call"
     <<"c", "a", "l", "l", "s">>,   \* "calls"
     <<"i", "n", "t", "e", "r", "a", "c", "t", "i", "o", "n">>,   \* "interaction"
     <<"l", "o", "g">>,   \* "log"
     <<"l", "o", "g", "s">>}   \* "logs"

\* line 133.
CountWords ==
    {<<"h", "o", "w", " ", "m", "a", "n", "y">>,   \* "how many"
     <<"n", "u", "m", "b", "e", "r", " ", "o", "f">>,   \* "number of"
     <<"c", "o", "u", "n", "t">>,   \* "count"
     <<"t", "o", "t", "a", "l">>}   \* "total"

\* line 134.
CountEntities ==
    {<<"c", "a", "l", "l">>,   \* "call"
     <<"c", "a", "l", "l", "s">>,   \* "calls"
     <<"t", "i", "c", "k", "e", "t">>,   \* "ticket"
     <<"t", "i", "c", "k", "e", "t", "s">>,   \* "tickets"
     <<"c", "u", "s", "t", "o", "m", "e", "r">>}   \* "customer"

\* line 138: status_words.
StatusWords ==
    {<<"s", "u", "c", "c", "e", "s", "s">>,   \* "success"
     <<"s", "u", "c", "c", "e", "s", "s", "f", "u", "l">>,   \* "successful"
     <<"c", "o", "m", "p", "l", "e", "t", "e", "d">>,   \* "completed"
     <<"f", "a", "i", "l", "e", "d">>,   \* "failed"
     <<"m", "i", "s", "s", "e", "d">>,   \* "missed"
     <<"a", "n", "s", "w", "e", "r", "e", "d">>}   \* "answered"

\* line 139: entity_words.
EntityWords ==
    {<<"c", "a", "l", "l">>,   \* "call"
     <<"c", "a", "l", "l", "s">>,   \* "calls"
     <<"r", "e", "c", "o", "r", "d">>,   \* "record"
     <<"r", "e", "c", "o", "r", "d", "s">>,   \* "records"
     <<"c", "u", "s", "t", "o", "m", "e", "r">>,   \* "customer"
     <<"t", "i", "c", "k", "e", "t">>,   \* "ticket"
     <<"i", "n", "t", "e", "r", "a", "c", "t", "i", "o", "n">>}   \* "interaction"

\* line 144.
CustomerWords ==
    {<<"c", "a", "l", "l", " ", "l", "o", "g">>,   \* "call log"
     <<"c", "a", "l", "l", " ", "l", "o", "g", "s">>,   \* "call logs"
     <<"c", "u", "s", "t", "o", "m", "e", "r">>,   \* "customer"
     <<"c", "u", "s", "t", "o", "m", "e", "r", "s">>}   \* "customers"

\* line 148.
DirectionWords ==
    {<<"i", "n", "c", "o", "m", "i", "n", "g">>,   \* "incoming"
     <<"o", "u", "t", "g", "o", "i", "n", "g">>,   \* "outgoing"
     <<"i", "n", "b", "o", "u", "n", "d">>,   \* "inbound"
     <<"o", "u", "t", "b", "o", "u", "n", "d">>}   \* "outbound"

\* lines 112-113: any follow-up indicator occurs in t.
HasFollowUpIndicator(t) == ContainsAny(t, FOLLOW_UP_INDICATORS)

\* lines 115-116: re.search(r"how many (of|are|were)\b", t).
HowManyOf(t) ==
    \E p \in HowManyForms :
        \E i \in 1..(Len(t) - Len(p) + 1) :
            OccursAt(t, p, i) /\ WordEdge(t, i + Len(p))

\* lines 120-126: a date pattern, and a call or log word.
DateAndCall(t) ==
    /\ DateLike(t, 1..2, 1..2, 2..4) \/ DateLike(t, {4}, 1..2, 1..2)
    /\ ContainsAny(t, DateWords)

\* lines 129-130: re.search(r"\b\d{10,12}\b", t).
PhoneLike(t) ==
    \E i \in 1..Len(t), n \in 10..12 :
        WordEdge(t, i) /\ DigitsAt(t, i, n) /\ WordEdge(t, i + n)

\* lines 133-135.
CountOfEntity(t) == ContainsAny(t, CountWords) /\ ContainsAny(t, CountEntities)

\* lines 138-141.
StatusOfEntity(t) == ContainsAny(t, StatusWords) /\ ContainsAny(t, EntityWords)

\* lines 144-145.
CustomerMention(t) == ContainsAny(t, CustomerWords)

\* lines 148-149.
DirectionMention(t) == ContainsAny(t, DirectionWords)

\* lines 119-150: the content heuristics, in the order they are tried.
ContentMatch(t) ==
    \/ DateAndCall(t)
    \/ PhoneLike(t)
    \/ CountOfEntity(t)
    \/ StatusOfEntity(t)
    \/ CustomerMention(t)
    \/ DirectionMention(t)

\* The routing state _last_route_was_db (line 88) is a dict: a function from
\* the thread ids it has an entry for to booleans.
EmptyDict == <<>>

\* line 111: _last_route_was_db.get(thread_id, False).
LastRouteWasDb(d, thread_id) == thread_id \in DOMAIN d /\ d[thread_id]

\* What dict.get leaves in the dict: get adds no entry.
AfterLookup_SetDefault(d, thread_id) ==
    [k \in DOMAIN d \cup {thread_id} |-> IF k \in DOMAIN d THEN d[k] ELSE FALSE]

AfterLookup(d, thread_id) == d

\* lines 111-117: the previous turn delegated and the utterance reads as a
\* follow-up.
FollowUp_Never(t, d, thread_id) == FALSE

FollowUp_AnyThread(t, d, thread_id) == HasFollowUpIndicator(t) \/ HowManyOf(t)

FollowUp(t, d, thread_id) ==
    /\ thread_id # None
    /\ LastRouteWasDb(d, thread_id)
    /\ HasFollowUpIndicator(t) \/ HowManyOf(t)

\* is_db_query(text, thread_id), lines 91-152, reading the routing state d.
is_db_query_StateFirst(text, thread_id, d) ==
    IF text = <<>> THEN FALSE
    ELSE IF thread_id \in DOMAIN d THEN FollowUp(LowerStr(text), d, thread_id)
    ELSE ContentMatch(LowerStr(text))

is_db_query(text, thread_id, d) ==
    IF text = <<>> THEN FALSE
    ELSE \E t \in {LowerStr(text)} : FollowUp(t, d, thread_id) \/ ContentMatch(t)

\* line 236: _last_route_was_db[thread_id] = requires_db.
RouteStored_Skip(d, thread_id, requires_db) == d

RouteStored(d, thread_id, requires_db) ==
    [k \in DOMAIN d \cup {thread_id} |-> IF k = thread_id THEN requires_db ELSE d[k]]

\* lines 232-236: the decision is taken and, with a thread id, stored.
AfterRouting(d, text, thread_id) ==
    IF thread_id # None
    THEN RouteStored(d, thread_id, is_db_query(text, thread_id, d))
    ELSE d

\* The utterances the classifier is tried on.
\* "and how many of those were successful"
U_HowManyOfThose == <<"a", "n", "d", " ", "h", "o", "w", " ", "m", "a", "n", "y", " ", "o", "f", " ", "t", "h", "o", "s", "e", " ", "w", "e", "r", "e", " ", "s", "u", "c", "c", "e", "s", "s", "f", "u", "l">>

\* "how many calls failed on 2025-08-10"
U_CallsFailedOn == <<"h", "o", "w", " ", "m", "a", "n", "y", " ", "c", "a", "l", "l", "s", " ", "f", "a", "i", "l", "e", "d", " ", "o", "n", " ", "2", "0", "2", "5", "-", "0", "8", "-", "1", "0">>

\* "what's the weather"
U_Weather == <<"w", "h", "a", "t", "'", "s", " ", "t", "h", "e", " ", "w", "e", "a", "t", "h", "e", "r">>

\* ""
U_Empty == <<>>

\* "show them"
U_ShowThem == <<"s", "h", "o", "w", " ", "t", "h", "e", "m">>

\* "9876543210"
U_Phone == <<"9", "8", "7", "6", "5", "4", "3", "2", "1", "0">>

\* "Total Calls"
U_TotalCalls == <<"T", "o", "t", "a", "l", " ", "C", "a", "l", "l", "s">>

\* "incoming"
U_Incoming == <<"i", "n", "c", "o", "m", "i", "n", "g">>

\* "123456789"
U_NineDigits == <<"1", "2", "3", "4", "5", "6", "7", "8", "9">>

\* "on 10/08/2025"
U_DateOnly == <<"o", "n", " ", "1", "0", "/", "0", "8", "/", "2", "0", "2", "5">>

\* "logs 10/08/2025"
U_LogsDate == <<"l", "o", "g", "s", " ", "1", "0", "/", "0", "8", "/", "2", "0", "2", "5">>

\* "missed one record"
U_MissedRecord == <<"m", "i", "s", "s", "e", "d", " ", "o", "n", "e", " ", "r", "e", "c", "o", "r", "d">>

\* "how many are there"
U_HowManyAre == <<"h", "o", "w", " ", "m", "a", "n", "y", " ", "a", "r", "e", " ", "t", "h", "e", "r", "e">>

\* "how many office"
U_HowManyOffice == <<"h", "o", "w", " ", "m", "a", "n", "y", " ", "o", "f", "f", "i", "c", "e">>

\* "CUSTOMERS"
U_Customers == <<"C", "U", "S", "T", "O", "M", "E", "R", "S">>

\* "1234567890123"
U_ThirteenDigits == <<"1", "2", "3", "4", "5", "6", "7", "8", "9", "0", "1", "2", "3">>

\* "mathematics"
U_Mathematics == <<"m", "a", "t", "h", "e", "m", "a", "t", "i", "c", "s">>

Utterances ==
    {U_HowManyOfThose, U_CallsFailedOn, U_Weather, U_Empty,
     U_ShowThem, U_Phone, U_TotalCalls, U_Incoming,
     U_NineDigits, U_DateOnly, U_LogsDate, U_MissedRecord,
     U_HowManyAre, U_HowManyOffice, U_Customers, U_ThirteenDigits,
     U_Mathematics}

\* The utterances of the turns that run concurrently: one the content
\* heuristics match, and one that only reads as a follow-up.
TurnUtterances == {U_CallsFailedOn, U_ShowThem}

\* Their thread ids: one session's token, or none.
TurnThreadIds == {"tok1", None}

\* The thread id of a call: a session token, or none.
ThreadIds == Tokens \cup {None}

\* Every content the routing state can have.
Dicts == UNION {[S -> BOOLEAN] : S \in SUBSET Tokens}

VARIABLES
    last_route_was_db,  \* supervisor_agent._last_route_was_db
    probe,              \* history: the last call of is_db_query
    turn,               \* thread -> the ainvoke call it is in
    ended,              \* history: the last ainvoke call that has ended
    latest              \* history: thread id -> the decision last stored for it

routeVars == <<last_route_was_db, probe, turn, ended, latest>>

NoProbe ==
    [called |-> FALSE, text |-> <<>>, thread_id |-> None, before |-> EmptyDict,
     after |-> EmptyDict, result |-> FALSE]

NoTurn ==
    [pos |-> "idle", text |-> <<>>, thread_id |-> None, requires_db |-> FALSE,
     prev |-> FALSE, overtaken |-> FALSE]

NoEnded ==
    [how |-> None, thread_id |-> None, requires_db |-> FALSE, stored |-> FALSE,
     prev |-> FALSE, overtaken |-> FALSE]

\* line 88: _last_route_was_db = {} at import; d is what it holds.
RouteInitAt(d) ==
    /\ last_route_was_db = d
    /\ probe = NoProbe
    /\ turn = [t \in Threads |-> NoTurn]
    /\ ended = NoEnded
    /\ latest = [k \in Tokens |-> "none"]

RouteInit == RouteInitAt(EmptyDict)

\* is_db_query(text, thread_id) is called on its own; line 111 reads the
\* routing state when there is a thread id.
Classify(text, thread_id) ==
    LET d == last_route_was_db
        after == IF text # <<>> /\ thread_id # None THEN AfterLookup(d, thread_id) ELSE d
    IN  /\ last_route_was_db' = after
        /\ probe' = [called |-> TRUE, text |-> text, thread_id |-> thread_id,
                     before |-> d, after |-> after,
                     result |-> is_db_query(text, thread_id, d)]
        /\ UNCHANGED <<turn, ended, latest>>

\* ainvoke lines 215-236: the decision is taken and stored; the coroutine then
\* awaits the agent, and other coroutines of the loop run.
AinvokeRoute(t, text, thread_id) ==
    LET d == last_route_was_db
        requires_db == is_db_query(text, thread_id, d)
    IN  /\ turn[t].pos = "idle"
        /\ last_route_was_db' = AfterRouting(d, text, thread_id)
        /\ turn' = [u \in Threads |->
              IF u = t
              THEN [pos |-> "invoking", text |-> text, thread_id |-> thread_id,
                    requires_db |-> requires_db,
                    prev |-> LastRouteWasDb(d, thread_id), overtaken |-> FALSE]
              ELSE IF turn[u].pos = "invoking" /\ thread_id # None
                      /\ turn[u].thread_id = thread_id
              THEN [turn[u] EXCEPT !.overtaken = TRUE]
              ELSE turn[u]]
        /\ latest' = IF thread_id # None
                     THEN [latest EXCEPT ![thread_id] =
                              IF requires_db THEN "db" ELSE "direct"]
                     ELSE latest
        /\ UNCHANGED <<probe, ended>>

\* lines 238-276: the invocation returns, raises, or goes through the fallback
\* loop; none of them writes the routing state.
AinvokeEnd(t, how) ==
    /\ turn[t].pos = "invoking"
    /\ ended' = [how |-> how, thread_id |-> turn[t].thread_id,
                 requires_db |-> turn[t].requires_db,
                 stored |-> LastRouteWasDb(last_route_was_db, turn[t].thread_id),
                 prev |-> turn[t].prev, overtaken |-> turn[t].overtaken]
    /\ turn' = [turn EXCEPT ![t] = NoTurn]
    /\ UNCHANGED <<last_route_was_db, probe, latest>>

\* ---------------------------------------------------------------------------
\* routes/auth.py and routes/chat.py: the session table, and the request
\* threads that run chat() / _process_chat_request and, through run_async,
\* SupervisorProxy.ainvoke of agents/supervisor_agent.py.
VARIABLES
    SESSIONS,      \* auth.SESSIONS: the tokens with a session
    issued,        \* history: every token login has handed out
    req,           \* thread -> the chat request it is processing
    resp,          \* thread -> the response its last request got
    logoutResp,    \* the response of the last logout
    started        \* history: chat requests received so far

chatVars == <<SESSIONS, issued, model_name, req, resp, logoutResp, started>>

\* The message of a chat request: an utterance of the classifier, or empty.
Messages == {U_CallsFailedOn, U_Empty}

MAX_RETRIES == 1

PrimaryModel == "gpt-5-mini"

FALLBACK_MODELS == <<"gpt-4o-mini", "gpt-4o", "gpt-4">>

MCP_CONNECTION_ERROR_PATTERNS ==
    {"connection string is not valid", "connect to a MongoDB instance",
     "ClosedResourceError", "BrokenResourceError", "connection refused",
     "connection reset", "not connected"}

\* A text is the set of the fragments it is made of; str.lower() fragment by
\* fragment.
Lower(f) ==
    CASE f = "ClosedResourceError" -> "closedresourceerror"
      [] f = "BrokenResourceError" -> "brokenresourceerror"
      [] f = "connect to a MongoDB instance" -> "connect to a mongodb instance"
      [] f = "Connection refused" -> "connection refused"
      [] f = "Here are the results" -> "here are the results"
      [] f = "Internal error" -> "internal error"
      [] f = "Request timed out" -> "request timed out"
      [] OTHER -> f

LowerText(text) == {Lower(f) : f \in text}

\* is_mcp_connection_error, chat.py lines 32-35.
is_mcp_connection_error(text) ==
    \E p \in MCP_CONNECTION_ERROR_PATTERNS : Lower(p) \in LowerText(text)

\* supervisor_agent.py lines 249-251.
IsModelUnavailable(text) ==
    "model_not_found" \in LowerText(text) \/ "does not have access" \in LowerText(text)

\* What an invocation can come back with: the reply text of a result, or the
\* text of an exception.
ReplyTexts == {{"Here are the results"}, {"Connection refused"}}

ErrTexts ==
    {{"model_not_found"}, {"ClosedResourceError"}, {"Internal error"},
     {"Request timed out"}}

Outcomes ==
    [kind : {"result"}, text : ReplyTexts] \cup [kind : {"exception"}, text : ErrTexts]

\* The construction step that raises, if any.
Failures == {"none", "model", "data", "compile"}

\* How an invocation ended for the handler: a clean result, a failure of a
\* transient class (an MCP connection error in the exception or in the reply
\* text, or the provider refusing the model), or another exception.
Tried(kind, text) ==
    IF is_mcp_connection_error(text) THEN "transient"
    ELSE IF kind = "result" THEN "ok"
    ELSE IF IsModelUnavailable(text) THEN "transient"
    ELSE "other"

\* A request: where it is, its inputs, the proxy it was given (sup), the text
\* of the last invocation's outcome, and histories: the failure that led to
\* the retry (first), how the request's first invocation ended (firstTried),
\* the invocations made for it (invokes), the supervisor.ainvoke calls the
\* handler made for it (calls) and the fallback models the current ainvoke call
\* has rotated to (fbs).
NoReq ==
    [pos |-> "idle", token |-> None, message |-> <<>>, retry_count |-> 0,
     sup |-> 0, text |-> {}, orig |-> {}, fb |-> 0, fbOut |-> {}, teardowns |-> 0,
     replays |-> 0, rots |-> 0, fbFailed |-> FALSE, late |-> FALSE,
     tried |-> None, first |-> {}, firstTried |-> None, invokes |-> 0,
     calls |-> 0, fbs |-> <<>>]

NoResp ==
    [code |-> 0, status |-> None, text |-> {}, last |-> {}, retry_count |-> 0,
     teardowns |-> 0, replays |-> 0, late |-> FALSE, tried |-> None,
     first |-> {}, firstTried |-> None, invokes |-> 0, calls |-> 0]

NoLogout == [token |-> None, present |-> FALSE, code |-> 0, status |-> None]

ChatInit ==
    /\ SESSIONS = {}
    /\ issued = {}
    /\ model_name = PrimaryModel
    /\ req = [t \in Threads |-> NoReq]
    /\ resp = [t \in Threads |-> NoResp]
    /\ logoutResp = NoLogout
    /\ started = 0

\* auth.py login, lines 33-82: a fresh uuid token gets a session.
Login(tok) ==
    /\ tok \notin issued
    /\ SESSIONS' = SESSIONS \cup {tok}
    /\ issued' = issued \cup {tok}
    /\ UNCHANGED <<model_name, req, resp, logoutResp, started>>
    /\ UNCHANGED <<loopVars, taskVars, agentVars, last_route_was_db>>

\* auth.py logout, lines 107-127.
Logout(tok) ==
    /\ SESSIONS' = SESSIONS \ {tok}
    /\ logoutResp' =
          IF tok \in SESSIONS
          THEN [token |-> tok, present |-> TRUE, code |-> 200, status |-> "success"]
          ELSE [token |-> tok, present |-> FALSE, code |-> 400, status |-> "error"]
    /\ UNCHANGED <<issued, model_name, req, resp, started>>
    /\ UNCHANGED <<loopVars, taskVars, agentVars, last_route_was_db>>

\* initialize_supervisor(force_reinit) run from entry to exit under _init_lock
\* (chat.py 158-194, with get_supervisor_agent as in SvCheck .. SvCompile):
\* what the five globals hold afterwards, given the construction step that
\* raises.
AfterInit(force, fail) ==
    LET cached == initialized /\ ~force
        m0 == IF force THEN 0 ELSE model
        d0 == IF force THEN 0 ELSE data_agent
        a0 == IF force THEN 0 ELSE supervisor_agent
        n  == made + 1
        mFails == a0 = 0 /\ m0 = 0 /\ fail = "model"
        m1 == IF a0 = 0 /\ m0 = 0 /\ ~mFails THEN n ELSE m0
        dFails == a0 = 0 /\ ~mFails /\ d0 = 0 /\ fail = "data"
        d1 == IF a0 = 0 /\ ~mFails /\ d0 = 0 /\ ~dFails THEN n ELSE d0
        cFails == a0 = 0 /\ ~mFails /\ ~dFails /\ fail = "compile"
        raised == mFails \/ dFails \/ cFails
        a1 == IF a0 = 0 /\ ~raised THEN n ELSE a0
    IN  IF cached
        THEN [raised |-> FALSE, supervisor |-> supervisor, initialized |-> TRUE,
              model |-> model, data_agent |-> data_agent,
              supervisor_agent |-> supervisor_agent, built |-> FALSE, ran |-> FALSE]
        ELSE [raised |-> raised,
              supervisor |-> IF raised THEN (IF force THEN 0 ELSE supervisor) ELSE a1,
              initialized |-> IF raised THEN (IF force THEN FALSE ELSE initialized)
                              ELSE TRUE,
              model |-> m1, data_agent |-> d1, supervisor_agent |-> a1,
              built |-> (a0 = 0 /\ ~raised), ran |-> TRUE]

\* The call's effect on the globals, the objects and the histories; held are
\* the proxies the requests in progress hold.
InitializeSupervisor(force, fail, held) ==
    LET a == AfterInit(force, fail)
        mn == IF a.ran /\ a.model = made + 1 THEN ModelMade(made + 1) ELSE modelName
        da == IF a.ran /\ a.data_agent = made + 1
              THEN DataAgentMade(made + 1, a.model) ELSE dataAgents
        px == IF a.built
              THEN Put(proxies, made + 1, ProxyFields(a.model, a.data_agent))
              ELSE proxies
        h == HeapInUse(mn, da, px, a.model, a.data_agent,
                       held \cup {a.supervisor, a.supervisor_agent})
    IN  /\ supervisor' = a.supervisor
        /\ initialized' = a.initialized
        /\ model' = a.model
        /\ data_agent' = a.data_agent
        /\ supervisor_agent' = a.supervisor_agent
        /\ made' = IF a.ran THEN made + 1 ELSE made
        /\ builds' = IF a.built THEN builds + 1 ELSE builds
        /\ initCalls' = initCalls + 1
        /\ forced' = (forced \/ force)
        /\ modelName' = h.modelName
        /\ dataAgents' = h.dataAgents
        /\ proxies' = h.proxies
        /\ UNCHANGED <<loop, loop_thread, init_lock, loops, loopThreads, bpc,
                       entry, got, co, future, ret, snap>>
        /\ UNCHANGED <<checkpointer, saved, last_route_was_db>>

\* chat(), line 218: _process_chat_request(retry_count=0).
ChatStart(t, tok, message) ==
    /\ req[t].pos = "idle"
    /\ started < MaxRequests
    /\ started' = started + 1
    /\ req' = [req EXCEPT ![t] =
          [NoReq EXCEPT !.pos = "validate", !.token = tok, !.message = message,
                        !.late = (tok \in issued /\ tok \notin SESSIONS)]]
    /\ resp' = [resp EXCEPT ![t] = NoResp]
    /\ UNCHANGED <<SESSIONS, issued, model_name, logoutResp>>
    /\ UNCHANGED <<loopVars, taskVars, agentVars, last_route_was_db>>

\* The response leaves the handler; r is the request as the step leaves it.
Respond(t, r, code, status, text) ==
    /\ resp' = [resp EXCEPT ![t] =
          [code |-> code, status |-> status, text |-> text, last |-> r.text,
           retry_count |-> r.retry_count, teardowns |-> r.teardowns,
           replays |-> r.replays, late |-> r.late, tried |-> r.tried,
           first |-> r.first, firstTried |-> r.firstTried, invokes |-> r.invokes,
           calls |-> r.calls]]
    /\ req' = [req EXCEPT ![t] = NoReq]

\* lines 239-245: the token, then the message, are validated.
Validate(t) ==
    /\ req[t].pos = "validate"
    /\ IF req[t].token \notin SESSIONS
       THEN Respond(t, req[t], 401, "error", {"Invalid or missing token"})
       ELSE IF req[t].message = <<>>
       THEN Respond(t, req[t], 400, "error", {"Message is required"})
       ELSE /\ req' = [req EXCEPT ![t].pos = "init"]
            /\ UNCHANGED resp
    /\ UNCHANGED <<SESSIONS, issued, model_name, logoutResp, started>>
    /\ UNCHANGED <<loopVars, taskVars, agentVars, last_route_was_db>>

\* lines 248-254: supervisor = initialize_supervisor().
ReqInit(t, fail, e) ==
    /\ req[t].pos = "init"
    /\ InitializeSupervisor(FALSE, fail, {req[u].sup : u \in Threads \ {t}})
    /\ IF AfterInit(FALSE, fail).raised
       THEN /\ req' = [req EXCEPT ![t].pos = "except", ![t].text = e]
            /\ UNCHANGED resp
       ELSE IF AfterInit(FALSE, fail).supervisor = 0
       THEN Respond(t, req[t], 503, "error", {"Agent not initialized"})
       ELSE /\ req' = [req EXCEPT ![t].pos = "invoke",
                                    ![t].sup = AfterInit(FALSE, fail).supervisor]
            /\ UNCHANGED resp
    /\ UNCHANGED <<SESSIONS, issued, model_name, logoutResp, started>>

\* supervisor_agent.py lines 248-251: the except branch goes into the fallback
\* loop on a model-unavailable error.
EntersFallback_Always(res) == TRUE

EntersFallback(res) == res.kind = "exception" /\ IsModelUnavailable(res.text)

\* An invocation that returns has written the thread's history through the
\* checkpointer its handle is bound to.
AfterInvoke(res, sup, thread_id) ==
    IF res.kind = "result" /\ sup \in DOMAIN proxies
       /\ proxies[sup].supervisor.checkpointer = checkpointer
    THEN saved \cup {thread_id} ELSE saved

\* lines 274-279 and SupervisorProxy.ainvoke 215-251: the routing decision is
\* taken and stored, then the first invocation of this attempt is made; a
\* model-unavailable error enters the fallback loop.
AinvokeFirst(t, res) ==
    /\ req[t].pos = "invoke"
    /\ last_route_was_db' =
          AfterRouting(last_route_was_db, req[t].message, req[t].token)
    /\ saved' = AfterInvoke(res, req[t].sup, req[t].token)
    /\ req' = [req EXCEPT
          ![t].pos = IF EntersFallback(res) THEN "fallback"
                     ELSE IF res.kind = "result" THEN "check"
                     ELSE "except",
          ![t].text = res.text,
          ![t].orig = IF EntersFallback(res) THEN res.text ELSE {},
          ![t].fb = IF EntersFallback(res) THEN 1 ELSE 0,
          ![t].fbOut = {},
          ![t].rots = 0,
          ![t].fbFailed = FALSE,
          ![t].replays = IF req[t].retry_count > 0 THEN @ + 1 ELSE @,
          ![t].invokes = @ + 1,
          ![t].calls = @ + 1,
          ![t].fbs = <<>>,
          ![t].firstTried = IF req[t].retry_count = 0
                            THEN Tried(res.kind, res.text) ELSE @,
          ![t].tried = Tried(res.kind, res.text)]
    /\ UNCHANGED <<SESSIONS, issued, model_name, resp, logoutResp, started>>
    /\ UNCHANGED <<loopVars, taskVars>>
    /\ UNCHANGED <<modelName, dataAgents, proxies, checkpointer>>

\* supervisor_agent.py lines 254-255: `if fm == model_name: continue`.
SkipEntry_Never(fm, current) == FALSE

SkipEntry(fm, current) == fm = current

\* supervisor_agent.py lines 253-255 and 276: the loop is over and the first
\* error is raised, or the entry is the current model and is skipped.
FallbackNext(t) ==
    /\ req[t].pos = "fallback"
    /\ IF req[t].fb > Len(FALLBACK_MODELS)
       THEN req' = [req EXCEPT ![t].pos = "except", ![t].text = req[t].orig,
                               ![t].tried = Tried("exception", req[t].orig),
                               ![t].orig = {}, ![t].fb = 0, ![t].rots = 0,
                               ![t].fbFailed = FALSE]
       ELSE /\ SkipEntry(FALLBACK_MODELS[req[t].fb], model_name)
            /\ req' = [req EXCEPT ![t].fb = @ + 1]
    /\ UNCHANGED <<SESSIONS, issued, model_name, resp, logoutResp, started>>
    /\ UNCHANGED <<loopVars, taskVars, agentVars, last_route_was_db>>

\* lines 256-266 with _rotate_to_model 197-203: the model is rotated, the
\* cached instances are dropped and the handles are rebuilt; a step that
\* raises goes on to the next entry.
FallbackRotate(t, fail) ==
    LET fm == FALLBACK_MODELS[req[t].fb]
        n == made + 1
        m == IF fail = "model" THEN 0 ELSE n
        d == IF fail \in {"model", "data"} THEN 0 ELSE n
        mn == IF m = 0 THEN modelName ELSE Put(modelName, n, fm)
        da == IF d = 0 THEN dataAgents ELSE DataAgentMade(n, n)
        px == IF fail = "none" /\ req[t].sup \in DOMAIN proxies
              THEN [proxies EXCEPT ![req[t].sup] = ProxyFields(n, n)]
              ELSE proxies
        h == HeapInUse(mn, da, px, m, d, {req[u].sup : u \in Threads} \cup {supervisor})
    IN  /\ req[t].pos = "fallback"
        /\ req[t].fb <= Len(FALLBACK_MODELS)
        /\ ~SkipEntry(fm, model_name)
        /\ model_name' = fm
        /\ supervisor_agent' = 0
        /\ model' = m
        /\ data_agent' = d
        /\ made' = n
        /\ modelName' = h.modelName
        /\ dataAgents' = h.dataAgents
        /\ proxies' = h.proxies
        /\ req' = [req EXCEPT
              ![t].pos = IF fail = "none" THEN "fb_invoke" ELSE "fallback",
              ![t].fb = IF fail = "none" THEN @ ELSE @ + 1,
              ![t].fbFailed = (@ \/ fail # "none"),
              ![t].rots = @ + 1,
              ![t].fbs = Append(@, fm),
              ![t].teardowns = @ + 1]
        /\ UNCHANGED <<SESSIONS, issued, resp, logoutResp, started>>
        /\ UNCHANGED loopVars
        /\ UNCHANGED <<co, future, ret, snap, forced>>
        /\ UNCHANGED <<checkpointer, saved, last_route_was_db>>

\* lines 268-271: the fallback's result is what ainvoke returns.
AfterFallbackResult_First(r, res) ==
    [r EXCEPT !.pos = "check", !.text = r.orig, !.fbOut = res.text,
              !.tried = Tried("result", r.orig), !.fbs = <<>>]

AfterFallbackResult(r, res) ==
    [r EXCEPT !.pos = "check", !.text = res.text, !.fbOut = res.text,
              !.tried = Tried("result", res.text), !.fbs = <<>>]

\* lines 268-274: the request is invoked on the rebuilt handles; an exception
\* goes on to the next entry.
FallbackInvoke(t, res) ==
    /\ req[t].pos = "fb_invoke"
    /\ req' = [req EXCEPT ![t] =
          IF res.kind = "result"
          THEN AfterFallbackResult([@ EXCEPT !.replays = @ + 1,
                                             !.invokes = @ + 1], res)
          ELSE [@ EXCEPT !.pos = "fallback", !.fb = @ + 1, !.fbFailed = TRUE,
                         !.replays = @ + 1, !.invokes = @ + 1,
                         !.tried = Tried(res.kind, res.text)]]
    /\ saved' = AfterInvoke(res, req[t].sup, req[t].token)
    /\ UNCHANGED <<SESSIONS, issued, model_name, resp, logoutResp, started>>
    /\ UNCHANGED <<loopVars, taskVars>>
    /\ UNCHANGED <<modelName, dataAgents, proxies, checkpointer, last_route_was_db>>

\* lines 302 and 322: _process_chat_request(retry_count + 1) starts at the top
\* of the function.
RetryEntry_SkipValidation == "init"

RetryEntry == "validate"

Retry(r) ==
    [r EXCEPT !.pos = RetryEntry, !.retry_count = @ + 1, !.teardowns = @ + 1,
              !.first = r.text, !.sup = 0,
              !.late = (r.token \in issued /\ r.token \notin SESSIONS),
              !.text = {}, !.orig = {}, !.fb = 0, !.fbOut = {}, !.rots = 0,
              !.fbFailed = FALSE, !.tried = None, !.fbs = <<>>]

\* lines 284-310: the reply is taken from the result; a reply that carries an
\* MCP connection error forces a reinitialization and a retry, any other reply
\* is the success response.
\* lines 297 and 317: the failure is an MCP connection error and the request
\* has retries left.
\* Variant: the retry count is not looked at.
ShouldRetry_Always(text, retry_count) == is_mcp_connection_error(text)

ShouldRetry(text, retry_count) ==
    is_mcp_connection_error(text) /\ retry_count < MAX_RETRIES

\* lines 307-310: the reply of the success response.
SuccessReply_First(r) == r.first

SuccessReply(r) == r.text

Check(t, fail, e) ==
    /\ req[t].pos = "check"
    /\ IF ShouldRetry(req[t].text, req[t].retry_count)
       THEN /\ InitializeSupervisor(TRUE, fail, {req[u].sup : u \in Threads \ {t}})
            /\ req' = [req EXCEPT ![t] =
                  IF AfterInit(TRUE, fail).raised
                  THEN [@ EXCEPT !.pos = "except", !.text = e, !.teardowns = @ + 1,
                                 !.orig = {}, !.fb = 0, !.fbOut = {}, !.rots = 0,
                                 !.fbFailed = FALSE]
                  ELSE Retry(@)]
            /\ UNCHANGED resp
       ELSE /\ Respond(t, req[t], 200, "success", SuccessReply(req[t]))
            /\ UNCHANGED <<loopVars, taskVars, agentVars, last_route_was_db>>
    /\ UNCHANGED <<SESSIONS, issued, model_name, logoutResp, started>>

\* lines 312-333: an MCP connection error not yet retried forces a
\* reinitialization and a retry; anything else is the error response.
Except(t, fail, e) ==
    /\ req[t].pos = "except"
    /\ IF ShouldRetry(req[t].text, req[t].retry_count)
       THEN /\ InitializeSupervisor(TRUE, fail, {req[u].sup : u \in Threads \ {t}})
            /\ IF AfterInit(TRUE, fail).raised
               THEN Respond(t, [req[t] EXCEPT !.teardowns = @ + 1], 500, "error",
                            {"Connection error persists after retry"} \cup e)
               ELSE /\ req' = [req EXCEPT ![t] = Retry(@)]
                    /\ UNCHANGED resp
       ELSE /\ Respond(t, req[t], 500, "error",
                       {"An error occurred"} \cup req[t].text)
            /\ UNCHANGED <<loopVars, taskVars, agentVars, last_route_was_db>>
    /\ UNCHANGED <<SESSIONS, issued, model_name, logoutResp, started>>

\* ------------------------------------------------- MongoMCPClient: data
\* Total number of calls made on the tool client in one behaviour.
MaxMcpCalls == 4

\* The coroutines of the scheduler that call into agents/mongo_mcp_client.py.
Tasks == {"k1", "k2"}

VARIABLES
    shared_mcp_client,  \* _shared_mcp_client: a MongoMCPClient, 0 for None
    shared_mcp_tools,   \* _shared_mcp_tools: a tool list, 0 for None
    mcp,                \* MongoMCPClient -> its client, tools and all_tools
    connection,         \* MultiServerMCPClient -> has close() closed it
    ktask,              \* task -> the call it is suspended in
    mcpCalls,           \* calls started so far
    sharedMade,         \* history: MongoMCPClient objects init_shared_mcp_tools made
    firstTools,         \* history: the list the first successful init returned
    handed              \* history: every tool list a call returned

mcpVars == <<shared_mcp_client, shared_mcp_tools, mcp, connection, ktask,
             mcpCalls, sharedMade, firstTools, handed>>

\* A tool list is named by the connection that served it.
NoTask == [pc |-> "idle", op |-> "none", self |-> 0, conn |-> 0, after |-> FALSE]

\* MongoMCPClient.__init__ (lines 58-69).
NewMongoMCPClient == [client |-> 0, tools |-> 0, all_tools |-> 0]

McpInit ==
    /\ shared_mcp_client = 0
    /\ shared_mcp_tools = 0
    /\ mcp = <<>>
    /\ connection = <<>>
    /\ ktask = [k \in Tasks |-> NoTask]
    /\ mcpCalls = 0
    /\ sharedMade = 0
    /\ firstTools = 0
    /\ handed = {}

\* A call returns the tool list `tools`: what is recorded of it.
Handed(op, c, tools, cached, after) ==
    [op |-> op, self |-> c, tools |-> tools, cached |-> cached, after |-> after,
     closed |-> connection[tools].closed]

\* The cache test of init_shared_mcp_tools (line 30).
SharedCached == shared_mcp_tools # 0

\* The cache tests of get_tools (line 127) and get_all_tools (line 160).
Cached(c, field) == IF field = "tools" THEN mcp[c].tools # 0 ELSE mcp[c].all_tools # 0

CachedList(c, field) == IF field = "tools" THEN mcp[c].tools ELSE mcp[c].all_tools

\* get_tools / get_all_tools past the cache test, up to the await (lines
\* 132-139, 165-207): the configuration is loaded, which may raise, a
\* MultiServerMCPClient is created and bound to self.client, and the request
\* for the tools is awaited.
Fetch(k, c, field, op, cfg, clients) ==
    IF cfg
    THEN LET n == Cardinality(DOMAIN connection) + 1
         IN  /\ connection' = Put(connection, n, [closed |-> FALSE])
             /\ mcp' = Put(clients, c, [clients[c] EXCEPT !.client = n])
             /\ ktask' = [ktask EXCEPT ![k] =
                            [pc |-> field, op |-> op, self |-> c, conn |-> n,
                             after |-> firstTools # 0]]
    ELSE /\ mcp' = clients
         /\ UNCHANGED <<connection, ktask>>

\* init_shared_mcp_tools up to its first suspension (lines 28-35).
InitSharedMcpTools(k, cfg) ==
    /\ ktask[k].pc = "idle"
    /\ mcpCalls < MaxMcpCalls
    /\ mcpCalls' = mcpCalls + 1
    /\ IF SharedCached
       THEN /\ handed' = handed \cup
                           {Handed("init", shared_mcp_client, shared_mcp_tools,
                                   TRUE, firstTools # 0)}
            /\ UNCHANGED <<shared_mcp_client, mcp, connection, ktask, sharedMade>>
       ELSE LET c == Cardinality(DOMAIN mcp) + 1
            IN  /\ shared_mcp_client' = c
                /\ sharedMade' = sharedMade + 1
                /\ Fetch(k, c, "all_tools", "init", cfg, Put(mcp, c, NewMongoMCPClient))
                /\ UNCHANGED handed
    /\ UNCHANGED <<shared_mcp_tools, firstTools>>

\* get_shared_mcp_tools (lines 40-44): the list, or RuntimeError.
GetSharedMcpTools ==
    /\ mcpCalls < MaxMcpCalls
    /\ mcpCalls' = mcpCalls + 1
    /\ handed' = IF shared_mcp_tools = 0 THEN handed
                 ELSE handed \cup {Handed("shared", shared_mcp_client,
                                          shared_mcp_tools, TRUE, firstTools # 0)}
    /\ UNCHANGED <<shared_mcp_client, shared_mcp_tools, mcp, connection, ktask,
                   sharedMade, firstTools>>

\* MongoMCPClient.get_tools / get_all_tools up to the first suspension.
GetTools(k, c, field, cfg) ==
    /\ ktask[k].pc = "idle"
    /\ mcpCalls < MaxMcpCalls
    /\ c \in DOMAIN mcp
    /\ mcpCalls' = mcpCalls + 1
    /\ IF Cached(c, field)
       THEN /\ handed' = handed \cup
                           {Handed(field, c, CachedList(c, field), TRUE, firstTools # 0)}
            /\ UNCHANGED <<mcp, connection, ktask>>
       ELSE /\ Fetch(k, c, field, field, cfg, mcp)
            /\ UNCHANGED handed
    /\ UNCHANGED <<shared_mcp_client, shared_mcp_tools, sharedMade, firstTools>>

\* The awaited request returns (lines 139-145, 207-213, 35-37) or raises
\* (lines 147-149, 215-217).
ToolsArrive(k, ok) ==
    /\ ktask[k].pc \in {"tools", "all_tools"}
    /\ ktask' = [ktask EXCEPT ![k] = NoTask]
    /\ LET r == ktask[k]
       IN  IF ok
           THEN /\ mcp' = [mcp EXCEPT ![r.self] =
                             IF r.pc = "tools" THEN [@ EXCEPT !.tools = r.conn]
                             ELSE [@ EXCEPT !.all_tools = r.conn]]
                /\ handed' = handed \cup {Handed(r.op, r.self, r.conn, FALSE, r.after)}
                /\ IF r.op = "init"
                   THEN /\ shared_mcp_tools' = r.conn
                        /\ firstTools' = IF firstTools = 0 THEN r.conn ELSE firstTools
                   ELSE UNCHANGED <<shared_mcp_tools, firstTools>>
           ELSE UNCHANGED <<mcp, handed, shared_mcp_tools, firstTools>>
    /\ UNCHANGED <<shared_mcp_client, connection, mcpCalls, sharedMade>>

\* What close() leaves in the object once the connection is closed (line 236).
Closed(m) == [m EXCEPT !.client = 0]

\* MongoMCPClient.close (lines 222-240).  how: the connection's close is
\* synchronous, is awaited, or raises (the exception is logged and swallowed).
Close(k, c, how) ==
    /\ ktask[k].pc = "idle"
    /\ mcpCalls < MaxMcpCalls
    /\ c \in DOMAIN mcp
    /\ mcpCalls' = mcpCalls + 1
    /\ LET n == mcp[c].client
       IN  IF n = 0 \/ how = "raises"
           THEN UNCHANGED <<mcp, connection, ktask>>
           ELSE /\ connection' = [connection EXCEPT ![n].closed = TRUE]
                /\ IF how = "sync"
                   THEN mcp' = [mcp EXCEPT ![c] = Closed(@)] /\ UNCHANGED ktask
                   ELSE /\ ktask' = [ktask EXCEPT ![k] =
                                       [pc |-> "closing", op |-> "close", self |-> c,
                                        conn |-> n, after |-> firstTools # 0]]
                        /\ UNCHANGED mcp
    /\ UNCHANGED <<shared_mcp_client, shared_mcp_tools, sharedMade, firstTools, handed>>

\* The awaited close returns (lines 234-237) or raises (lines 239-240).
CloseReturn(k, ok) ==
    /\ ktask[k].pc = "closing"
    /\ ktask' = [ktask EXCEPT ![k] = NoTask]
    /\ mcp' = IF ok THEN [mcp EXCEPT ![ktask[k].self] = Closed(@)] ELSE mcp
    /\ UNCHANGED <<shared_mcp_client, shared_mcp_tools, connection, mcpCalls,
                   sharedMade, firstTools, handed>>

vars == <<wsVars, flowVars, loopVars, taskVars, agentVars, routeVars, chatVars, mcpVars>>

Init == WSInit /\ FlowInit /\ LoopInit /\ AgentInit /\ RouteInit /\ ChatInit /\ McpInit

\* The manager under any interleaving of its callers.
Next ==
    \/ \E t \in Threads, s \in Sessions, ws \in Transports :
          Register(t, s, ws) /\ UNCHANGED <<flowVars, loopVars, taskVars, agentVars, routeVars, chatVars, mcpVars>>
    \/ \E t \in Threads, s \in Sessions, ws \in Transports :
          ConnectBind(t, s, ws) /\ UNCHANGED <<flowVars, loopVars, taskVars, agentVars, routeVars, chatVars, mcpVars>>
    \/ \E t \in Threads : ConnectPop(t) /\ UNCHANGED <<flowVars, loopVars, taskVars, agentVars, routeVars, chatVars, mcpVars>>
    \/ \E t \in Threads, s \in Sessions :
          Disconnect(t, s) /\ UNCHANGED <<flowVars, loopVars, taskVars, agentVars, routeVars, chatVars, mcpVars>>
    \/ \E t \in Threads, s \in Sessions, type \in MsgTypes :
          QueueSkip(t, s, type) /\ UNCHANGED <<flowVars, loopVars, taskVars, agentVars, routeVars, chatVars, mcpVars>>
    \/ \E t \in Threads, s \in Sessions, type \in MsgTypes :
          QueueGet(t, s, type) /\ UNCHANGED <<flowVars, loopVars, taskVars, agentVars, routeVars, chatVars, mcpVars>>
    \/ \E t \in Threads : QueueAppend(t) /\ UNCHANGED <<flowVars, loopVars, taskVars, agentVars, routeVars, chatVars, mcpVars>>

Spec == Init /\ [][Next]_vars

\* The manager driven by reconnecting handlers and concurrent senders.
FlowNext ==
    \/ \E t \in Threads, s \in Sessions : HandlerConnect(t, s) /\ UNCHANGED <<loopVars, taskVars, agentVars, routeVars, chatVars, mcpVars>>
    \/ \E t \in Threads : HandlerConnectReturn(t) /\ UNCHANGED <<loopVars, taskVars, agentVars, routeVars, chatVars, mcpVars>>
    \/ \E t \in Threads : HandlerReplay(t) /\ UNCHANGED <<loopVars, taskVars, agentVars, routeVars, chatVars, mcpVars>>
    \/ \E t \in Threads, s \in Sessions : HandlerDisconnect(t, s) /\ UNCHANGED <<loopVars, taskVars, agentVars, routeVars, chatVars, mcpVars>>
    \/ \E t \in Threads, s \in Sessions, type \in MsgTypes :
          SendLookup(t, s, type) /\ UNCHANGED <<loopVars, taskVars, agentVars, routeVars, chatVars, mcpVars>>
    \/ \E t \in Threads : SendLive(t) /\ UNCHANGED <<loopVars, taskVars, agentVars, routeVars, chatVars, mcpVars>>
    \/ \E t \in Threads : SendQueue(t) /\ UNCHANGED <<loopVars, taskVars, agentVars, routeVars, chatVars, mcpVars>>
    \/ \E t \in Threads : SendQueueAppend(t) /\ UNCHANGED <<loopVars, taskVars, agentVars, routeVars, chatVars, mcpVars>>

SpecFlow == Init /\ [][FlowNext]_vars

\* The event loop under concurrent callers of get_event_loop and run_async.
LoopNext ==
    \/ \E t \in Threads : CallGetEventLoop(t) /\ UNCHANGED <<wsVars, flowVars, agentVars, routeVars, chatVars, mcpVars>>
    \/ \E t \in Threads, c \in Coroutines :
          CallRunAsync(t, c) /\ UNCHANGED <<wsVars, flowVars, agentVars, routeVars, chatVars, mcpVars>>
    \/ \E t \in Threads : GelCheck(t) /\ UNCHANGED <<wsVars, flowVars, agentVars, routeVars, chatVars, mcpVars>>
    \/ \E t \in Threads : GelNew(t) /\ UNCHANGED <<wsVars, flowVars, agentVars, routeVars, chatVars, mcpVars>>
    \/ \E t \in Threads : GelThread(t) /\ UNCHANGED <<wsVars, flowVars, agentVars, routeVars, chatVars, mcpVars>>
    \/ \E t \in Threads : GelReturn(t) /\ UNCHANGED <<wsVars, flowVars, agentVars, routeVars, chatVars, mcpVars>>
    \/ \E t \in Threads : CoroRun(t) /\ UNCHANGED <<wsVars, flowVars, agentVars, routeVars, chatVars, mcpVars>>
    \/ \E t \in Threads : RunResult(t) /\ UNCHANGED <<wsVars, flowVars, agentVars, routeVars, chatVars, mcpVars>>

SpecLoop == Init /\ [][LoopNext]_vars

\* The supervisor registry under concurrent callers of initialize_supervisor.
InitNext ==
    \/ \E t \in Threads, force \in BOOLEAN :
          CallInitializeSupervisor(t, force) /\ UNCHANGED <<wsVars, flowVars, agentVars, routeVars, chatVars, mcpVars>>
    \/ \E t \in Threads : InitCheck(t) /\ UNCHANGED <<wsVars, flowVars, agentVars, routeVars, chatVars, mcpVars>>
    \/ \E t \in Threads : GelCheck(t) /\ UNCHANGED <<wsVars, flowVars, agentVars, routeVars, chatVars, mcpVars>>
    \/ \E t \in Threads : GelNew(t) /\ UNCHANGED <<wsVars, flowVars, agentVars, routeVars, chatVars, mcpVars>>
    \/ \E t \in Threads : GelThread(t) /\ UNCHANGED <<wsVars, flowVars, agentVars, routeVars, chatVars, mcpVars>>
    \/ \E t \in Threads : GelReturn(t) /\ UNCHANGED <<wsVars, flowVars, agentVars, routeVars, chatVars, mcpVars>>
    \/ \E t \in Threads : SvCheck(t) /\ UNCHANGED <<wsVars, flowVars, agentVars, routeVars, chatVars, mcpVars>>
    \/ \E t \in Threads, ok \in BOOLEAN : SvModel(t, ok) /\ UNCHANGED <<wsVars, flowVars, routeVars, chatVars, mcpVars>>
    \/ \E t \in Threads, ok \in BOOLEAN : SvData(t, ok) /\ UNCHANGED <<wsVars, flowVars, routeVars, chatVars, mcpVars>>
    \/ \E t \in Threads, ok \in BOOLEAN :
          SvCompile(t, ok) /\ UNCHANGED <<wsVars, flowVars, routeVars, chatVars, mcpVars>>
    \/ \E t \in Threads : InitBuilt(t) /\ UNCHANGED <<wsVars, flowVars, agentVars, routeVars, chatVars, mcpVars>>
    \/ \E t \in Threads : InitFailed(t) /\ UNCHANGED <<wsVars, flowVars, agentVars, routeVars, chatVars, mcpVars>>

SpecInit == Init /\ [][InitNext]_vars

\* The chat endpoint, login and logout under concurrent requests.
ChatNext ==
    \/ \E tok \in Tokens : Login(tok) /\ UNCHANGED <<wsVars, flowVars, probe, turn, ended, latest, mcpVars>>
    \/ \E tok \in Tokens : Logout(tok) /\ UNCHANGED <<wsVars, flowVars, probe, turn, ended, latest, mcpVars>>
    \/ \E t \in Threads, tok \in Tokens, message \in Messages :
          ChatStart(t, tok, message) /\ UNCHANGED <<wsVars, flowVars, probe, turn, ended, latest, mcpVars>>
    \/ \E t \in Threads : Validate(t) /\ UNCHANGED <<wsVars, flowVars, probe, turn, ended, latest, mcpVars>>
    \/ \E t \in Threads, fail \in Failures, e \in ErrTexts :
          ReqInit(t, fail, e) /\ UNCHANGED <<wsVars, flowVars, probe, turn, ended, latest, mcpVars>>
    \/ \E t \in Threads, res \in Outcomes :
          AinvokeFirst(t, res) /\ UNCHANGED <<wsVars, flowVars, probe, turn, ended, latest, mcpVars>>
    \/ \E t \in Threads : FallbackNext(t) /\ UNCHANGED <<wsVars, flowVars, probe, turn, ended, latest, mcpVars>>
    \/ \E t \in Threads, fail \in Failures :
          FallbackRotate(t, fail) /\ UNCHANGED <<wsVars, flowVars, probe, turn, ended, latest, mcpVars>>
    \/ \E t \in Threads, res \in Outcomes :
          FallbackInvoke(t, res) /\ UNCHANGED <<wsVars, flowVars, probe, turn, ended, latest, mcpVars>>
    \/ \E t \in Threads, fail \in Failures, e \in ErrTexts :
          Check(t, fail, e) /\ UNCHANGED <<wsVars, flowVars, probe, turn, ended, latest, mcpVars>>
    \/ \E t \in Threads, fail \in Failures, e \in ErrTexts :
          Except(t, fail, e) /\ UNCHANGED <<wsVars, flowVars, probe, turn, ended, latest, mcpVars>>

SpecChat == Init /\ [][ChatNext]_vars

\* The classifier as a function: its inputs are the utterance, the thread id
\* and the routing state, which is any content the turns can have left.
ClassifyInit ==
    /\ WSInit /\ FlowInit /\ LoopInit /\ AgentInit /\ ChatInit /\ McpInit
    /\ \E d \in Dicts : RouteInitAt(d)

ClassifyNext ==
    \E text \in Utterances, thread_id \in ThreadIds :
        Classify(text, thread_id)
          /\ UNCHANGED <<wsVars, flowVars, loopVars, taskVars, agentVars, chatVars, mcpVars>>

SpecClassify == ClassifyInit /\ [][ClassifyNext]_vars

\* Concurrent ainvoke calls, interleaved where they await the agent.
RouteNext ==
    \/ \E t \in Threads, text \in TurnUtterances, thread_id \in TurnThreadIds :
          AinvokeRoute(t, text, thread_id)
            /\ UNCHANGED <<wsVars, flowVars, loopVars, taskVars, agentVars, chatVars, mcpVars>>
    \/ \E t \in Threads, how \in {"result", "raises", "fallback"} :
          AinvokeEnd(t, how)
            /\ UNCHANGED <<wsVars, flowVars, loopVars, taskVars, agentVars, chatVars, mcpVars>>

SpecRoute == Init /\ [][RouteNext]_vars

\* The tool client under interleaved coroutines of the scheduler.
McpNext ==
    \/ \E k \in Tasks, cfg \in BOOLEAN :
          InitSharedMcpTools(k, cfg) /\ UNCHANGED <<wsVars, flowVars, loopVars, taskVars, agentVars, routeVars, chatVars>>
    \/ GetSharedMcpTools /\ UNCHANGED <<wsVars, flowVars, loopVars, taskVars, agentVars, routeVars, chatVars>>
    \/ \E k \in Tasks, c \in 1..MaxMcpCalls, field \in {"tools", "all_tools"}, cfg \in BOOLEAN :
          GetTools(k, c, field, cfg) /\ UNCHANGED <<wsVars, flowVars, loopVars, taskVars, agentVars, routeVars, chatVars>>
    \/ \E k \in Tasks, ok \in BOOLEAN : ToolsArrive(k, ok) /\ UNCHANGED <<wsVars, flowVars, loopVars, taskVars, agentVars, routeVars, chatVars>>
    \/ \E k \in Tasks, c \in 1..MaxMcpCalls, how \in {"sync", "async", "raises"} :
          Close(k, c, how) /\ UNCHANGED <<wsVars, flowVars, loopVars, taskVars, agentVars, routeVars, chatVars>>
    \/ \E k \in Tasks, ok \in BOOLEAN : CloseReturn(k, ok) /\ UNCHANGED <<wsVars, flowVars, loopVars, taskVars, agentVars, routeVars, chatVars>>

SpecMcp == Init /\ [][McpNext]_vars

\* --------------------------------------------------------------- helpers
IsSuffix(a, b) ==
    /\ Len(a) <= Len(b)
    /\ \A i \in 1..Len(a) : a[i] = b[Len(b) - Len(a) + i]

NoDup(q) == \A i, j \in 1..Len(q) : q[i] = q[j] => i = j

Elems(q) == {q[i] : i \in 1..Len(q)}

\* ------------------------------------------------------------------ C1
\* C1 as stated: a connect that follows a disconnect returns exactly the
\* messages queued since that disconnect (stated for the runs in which every
\* message was queued while its session had no transport).
C1_ExactlySinceDisconnect ==
    (last.op = "connect" /\ ~strayed) => \A w \in last.wins : last.ret = w.since

\* C1, amended: a connect that follows a disconnect returns what was already
\* queued at the disconnect followed by the messages queued since, in the order
\* they were sent, each once.
C1_QueuedAtDisconnectThenSince ==
    last.op = "connect" => \A w \in last.wins : last.ret = w.atDisc \o w.since

C1_Witness ==
    /\ last.op = "connect"
    /\ \E w \in last.wins : Len(w.since) >= 2 /\ Len(w.atDisc) >= 1

\* ------------------------------------------------------------------ C2
\* C2: under every interleaving, the messages appended between a disconnect
\* and the next connect are the tail of that connect's batch, in the order
\* they were appended, and every message appended so far is, once and in
\* order, either in a batch already returned or still in the queue.
C2_ArrivalsInNextBatch ==
    /\ last.op = "connect" => \A w \in last.wins : IsSuffix(w.since, last.ret)
    /\ \A s \in Sessions :
          /\ Elems(accepted[s]) = Elems(batches[s]) \cup Elems(message_queue[s])
          /\ Len(accepted[s]) = Len(batches[s]) + Len(message_queue[s])
          /\ \A i, j \in 1..Len(message_queue[s]) :
                i < j => message_queue[s][i].id < message_queue[s][j].id

\* A connect has returned two messages appended since the disconnect while
\* another sender is already inside queue_message for the same session.
C2_Witness ==
    /\ last.op = "connect"
    /\ \E w \in last.wins : Len(w.since) >= 2
    /\ \E t \in Threads : pc[t] = "q_append" /\ call[t].s = last.s

\* ------------------------------------------------------------------ C3
\* C3 as stated: between calls, a session with a bound transport has an empty
\* queue.
C3_QueueEmptyWhileBound ==
    lock = None => \A s \in Sessions : has_connection(s) => get_queued_count(s) = 0

\* ------------------------------------------------------------------ C4
\* C4: queue_message with a control type leaves the queue as it was, and no
\* queue and no batch returned by connect ever holds a message whose type is
\* outside message, stream, final, data.
C4_ControlNeverQueued ==
    /\ last.op = "queue_skip" => message_queue[last.s] = last.qBefore
    /\ \A s \in Sessions :
          \A m \in Elems(message_queue[s]) \cup Elems(batches[s]) :
              m.type \in {"message", "stream", "final", "data"}

\* A control message was passed for a session, and the session's next connect
\* has returned a batch.
C4_Witness ==
    /\ last.op = "connect"
    /\ last.ret # <<>>
    /\ \E i \in 1..MaxMsgs :
          /\ i < nextId
          /\ \A s \in Sessions : \A m \in Elems(accepted[s]) : m.id # i
          /\ \E m \in Elems(last.ret) : m.id > i

\* ------------------------------------------------------------------ C5
\* C5: the batches returned so far for a session, followed by its queue, are
\* the messages it accepted, in order; no message is in two batches; right
\* after connect returns, the session's queue is empty.
C5_NeverDroppedNeverReordered ==
    /\ \A s \in Sessions :
          /\ accepted[s] = batches[s] \o message_queue[s]
          /\ NoDup(batches[s])
    /\ last.op = "connect" => message_queue[last.s] = <<>>

\* The second non-empty batch of a session.
C5_Witness ==
    /\ last.op = "connect"
    /\ last.ret # <<>>
    /\ Len(batches[last.s]) > Len(last.ret)

\* ------------------------------------------------------------------ C6
\* C6 as stated: while a handler still holds an unreplayed part of the batch
\* connect returned to it, no message produced after that connect returned is
\* on the session's wire.
C6_BatchBeforeNewTraffic ==
    \A t \in Threads :
        (pc[t] = "replay" /\ pending[t] # <<>>) =>
            \A i \in 1..Len(wire[call[t].s]) : wire[call[t].s][i] < mark[t]

\* ------------------------------------------------------------------ C7
\* C7: right after disconnect the session has no transport, and a
\* queue_message of a queueable kind made after a disconnect appends the
\* message at the tail of the session's queue.
C7_DisconnectThenQueue ==
    /\ last.op = "disconnect" =>
          /\ ~has_connection(last.s)
          /\ get_connection(last.s) = None
    /\ (last.op = "queue" /\ window[last.s] # {}) =>
          message_queue[last.s] = Append(last.qBefore, last.m)

C7_Witness ==
    /\ last.op = "queue"
    /\ window[last.s] # {}
    /\ ~has_connection(last.s)
    /\ last.qBefore # <<>>
    /\ batches[last.s] # <<>>

\* ------------------------------------------------------------------ C8
\* C8 as stated, for any cap smaller than the number of messages sent: the
\* queue of a disconnected session stays below it.
C8_QueueCapped ==
    \A s \in Sessions : ~has_connection(s) => get_queued_count(s) < MaxMsgs

\* ------------------------------------------------------------------ C9
\* C9: register returns nothing and leaves the queue of its session as it
\* was, content and order.
C9_RegisterKeepsQueue ==
    last.op = "register" =>
        /\ last.ret = None
        /\ has_connection(last.s)
        /\ message_queue[last.s] = last.qBefore

C9_Witness ==
    /\ last.op = "register"
    /\ Len(message_queue[last.s]) >= 2

\* ----------------------------------------------------------------- C10
\* C10 as stated: at most one event loop and one loop thread are ever created.
C10_SingleScheduler ==
    /\ loops <= 1
    /\ loopThreads <= 1

\* ----------------------------------------------------------------- C11
\* C11: run_async blocks its caller only for a bounded wait: a caller that
\* waits on a coroutine that never completes can still leave the wait (with a
\* timeout error).
C11_WaitIsBounded ==
    \A t \in Threads :
        (bpc[t] = "run_wait" /\ co[t] = "never") => ENABLED LeaveWait(t)

\* ----------------------------------------------------------------- C12
\* C12: once created, the event loop and its thread are never replaced:
\* _loop and _loop_thread keep the object they first named, whatever fails,
\* is retried or is forcibly reinitialized.
C12_LoopNeverReplaced ==
    [][/\ loop # 0 => loop' = loop
       /\ loop_thread # 0 => loop_thread' = loop_thread]_vars

\* ----------------------------------------------------------------- C13
\* C13: what run_async hands back to a caller, result or exception, is the
\* outcome of the coroutine that caller submitted, never another caller's.
C13_OwnOutcome ==
    \A t \in Threads : ret[t].kind # None => ret[t].of = t

C13_Witness ==
    \E t, u \in Threads :
        /\ ret[t].fn = "run_async" /\ ret[t].kind = "result"
        /\ bpc[u] = "run_wait" /\ entry[u].fn = "run_async"
        /\ future[u].state = "exception"

\* ----------------------------------------------------------------- C14
\* C14: threads that call initialize_supervisor() concurrently while no agent
\* set exists cause exactly one construction, and every caller that gets an
\* object gets that one.
C14_OneConstruction ==
    ~forced =>
        /\ builds <= 1
        /\ \A t \in Threads :
              (ret[t].fn = "initialize_supervisor" /\ ret[t].kind = "result")
                  => (builds = 1 /\ ret[t].value = supervisor /\ supervisor # 0)

C14_Witness ==
    /\ ~forced
    /\ builds = 1
    /\ \A t \in Threads :
          /\ ret[t].fn = "initialize_supervisor"
          /\ ret[t].kind = "result"
          /\ bpc[t] = "idle"

\* ----------------------------------------------------------------- C15
\* C15: when construction fails, the exception reaches the caller and the
\* registry holds what it held before the call: _supervisor, _initialized,
\* _model, _data_agent and _supervisor_agent are unchanged.
C15_FailureLeavesNoPartialEntry ==
    snap.outcome = "raised" => Globals = snap.before

\* ----------------------------------------------------------------- C16
\* C16: a logout that names a token with no session is a no-op reported as a
\* success, not as an error.
C16_UnknownLogoutSucceeds ==
    (logoutResp.token # None /\ ~logoutResp.present) => logoutResp.status = "success"

\* ----------------------------------------------------------------- C17
\* C17: once logout has removed a token, no attempt that starts with it,
\* first or retry, gets past validation, and each is answered 401.
C17_RejectedAfterLogout ==
    \A t \in Threads :
        /\ req[t].late => req[t].pos = "validate"
        /\ resp[t].late => resp[t].code = 401

C17_Witness ==
    \E t \in Threads :
        resp[t].late /\ resp[t].retry_count = 1 /\ resp[t].code = 401

\* ----------------------------------------------------------------- C18
\* C18: one request sees at most one recovery, the proxy's fallback handling
\* and the handler's retry counted together: its handles are torn down and
\* rebuilt at most once and it is replayed at most once.
C18_AtMostOneRecovery ==
    \A t \in Threads :
        /\ req[t].teardowns <= 1 /\ req[t].replays <= 1
        /\ resp[t].teardowns <= 1 /\ resp[t].replays <= 1

C20_SecondFailureIsFatal ==
    \A t \in Threads :
        (resp[t].retry_count = 1 /\ resp[t].tried = "transient")
            => resp[t].status = "error"

\* C21: a request whose first invocation failed with a tool-connection error
\* (in the exception text or in the reply text), whose supervisor was then
\* force-reinitialised and whose replay came back clean, is answered 200 with
\* status success and the replay's reply; the first failure is not in it.
C21_ReplayReplyReturned ==
    \A t \in Threads :
        (resp[t].retry_count = 1 /\ is_mcp_connection_error(resp[t].first)
           /\ resp[t].tried = "ok")
        => /\ resp[t].code = 200
           /\ resp[t].status = "success"
           /\ resp[t].text = resp[t].last
           /\ resp[t].text # resp[t].first
           /\ ~is_mcp_connection_error(resp[t].text)

C21_Witness ==
    \E t \in Threads :
        /\ resp[t].retry_count = 1
        /\ resp[t].first = {"ClosedResourceError"}
        /\ resp[t].firstTried = "transient"
        /\ resp[t].tried = "ok"
        /\ resp[t].code = 200
        /\ resp[t].text = {"Here are the results"}
        /\ resp[t].teardowns = 1

\* The handles of proxy p and the module's cached model all run model name n.
OnModel(p, n) ==
    /\ p \in DOMAIN proxies
    /\ modelName[proxies[p].model] = n
    /\ modelName[proxies[p].supervisor.model] = n
    /\ modelName[dataAgents[proxies[p].data_agent].model] = n
    /\ model # 0 => modelName[model] = n

C23_RotationAtomic ==
    \A t \in Threads : req[t].rots > 0 => OnModel(req[t].sup, model_name)

\* C24: an invocation that fails with a timeout or another error outside the
\* transient classes is surfaced: the request goes to the error response with
\* no retry, rotation or reinitialisation after it, and the response is the
\* 500 error response carrying that error.
C24_NonTransientSurfaced ==
    \A t \in Threads :
        /\ req[t].tried = "other" => req[t].pos = "except"
        /\ resp[t].tried = "other"
           => /\ resp[t].code = 500
              /\ resp[t].status = "error"
              /\ resp[t].last \subseteq resp[t].text

\* C25: when the first invocation of a request succeeds, the step that makes
\* it and the step that answers leave model_name, the cached instances and
\* _supervisor as they were, and the answer is that result, 200 and success,
\* after one invocation and no rotation or reinitialisation.
C25_SuccessLeavesAllAlone ==
    [][\A t \in Threads :
          /\ (req[t].pos = "invoke" /\ req[t].retry_count = 0
                /\ req'[t].firstTried = "ok")
             => /\ req'[t].pos = "check"
                /\ UNCHANGED <<model_name, model, data_agent, supervisor_agent,
                               supervisor, initialized, proxies>>
          /\ (req[t].pos = "check" /\ req[t].retry_count = 0
                /\ req[t].firstTried = "ok" /\ req'[t] # req[t])
             => /\ resp'[t].code = 200
                /\ resp'[t].status = "success"
                /\ resp'[t].text = req[t].text
                /\ resp'[t].invokes = 1
                /\ resp'[t].teardowns = 0
                /\ UNCHANGED <<model_name, model, data_agent, supervisor_agent,
                               supervisor, initialized, proxies>>]_vars

C25_Witness ==
    \E t \in Threads :
        /\ resp[t].firstTried = "ok"
        /\ resp[t].code = 200
        /\ resp[t].text = {"Here are the results"}
        /\ resp[t].invokes = 1
        /\ resp[t].teardowns = 0
        /\ supervisor # 0
        /\ model_name = PrimaryModel

\* The utterance of the last is_db_query call as the classifier reads it, and
\* whether the turn before it on its thread delegated.
ProbeText == LowerStr(probe.text)

ProbePrevDelegated ==
    /\ probe.thread_id \in DOMAIN probe.before
    /\ probe.before[probe.thread_id]

\* C26: when the previous turn on the thread delegated and the utterance holds
\* a follow-up marker or matches "how many (of|are|were)", is_db_query says
\* delegate, whatever the content heuristics say.
C26_FollowUpDelegates ==
    (probe.called /\ ProbePrevDelegated
       /\ (HasFollowUpIndicator(ProbeText) \/ HowManyOf(ProbeText)))
    => probe.result

C26_Witness ==
    /\ probe.called
    /\ probe.text = U_HowManyOfThose
    /\ ProbePrevDelegated
    /\ ~ContentMatch(ProbeText)
    /\ probe.result

\* C27: an utterance that matches a content heuristic is classified delegate on
\* a thread without stored state, after a direct turn, after a delegated turn
\* and without a thread id.
C27_ContentMatchDelegates ==
    (probe.called /\ probe.text # <<>> /\ ContentMatch(ProbeText)) => probe.result

C27_Witness ==
    /\ probe.called
    /\ probe.text = U_CallsFailedOn
    /\ DateAndCall(ProbeText)
    /\ probe.thread_id \in DOMAIN probe.before
    /\ ~probe.before[probe.thread_id]
    /\ probe.result

\* C28: an empty utterance is direct; an utterance no content heuristic matches
\* is direct when the thread has no stored state, when its previous turn was
\* direct and when there is no thread id, follow-up marker or not.
C28_OtherwiseDirect ==
    (probe.called
       /\ \/ probe.text = <<>>
          \/ ~ContentMatch(ProbeText) /\ ~ProbePrevDelegated)
    => ~probe.result

C28_Witness ==
    /\ probe.called
    /\ probe.text = U_ShowThem
    /\ HasFollowUpIndicator(ProbeText)
    /\ probe.thread_id \in DOMAIN probe.before
    /\ ~probe.before[probe.thread_id]
    /\ ~probe.result

\* C29 as stated: when an ainvoke call with a thread id ends, the routing state
\* stored for the thread is the decision taken for that call's utterance.
C29_StoredIsOwnDecision ==
    (ended.how # None /\ ended.thread_id # None)
    => ended.stored = ended.requires_db

\* C29: the routing state of a thread is at every moment the decision of the
\* call that classified last on it, written before the agent is invoked; so a
\* call that returns, raises or goes through fallback ends with its own
\* decision stored, unless another call on the thread classified meanwhile.
C29_StoredIsLatestDecision ==
    /\ \A k \in Tokens :
          latest[k] # "none"
          => /\ k \in DOMAIN last_route_was_db
             /\ last_route_was_db[k] = (latest[k] = "db")
    /\ (ended.how # None /\ ended.thread_id # None /\ ~ended.overtaken)
       => ended.stored = ended.requires_db

C29_Witness ==
    /\ ended.how = "raises"
    /\ ended.thread_id # None
    /\ ~ended.overtaken
    /\ ~ended.prev
    /\ ended.requires_db
    /\ ended.stored

\* C30: is_db_query leaves the routing state as it found it, with no entry
\* added for a thread it has not seen, and its result is the same for every
\* routing state that agrees on the entry of the call's own thread.
C30_ClassifierIsPure ==
    probe.called
    => /\ probe.after = probe.before
       /\ \A d \in Dicts :
             (/\ (probe.thread_id \in DOMAIN d) = (probe.thread_id \in DOMAIN probe.before)
              /\ probe.thread_id \in DOMAIN d
                 => d[probe.thread_id] = probe.before[probe.thread_id])
             => is_db_query(probe.text, probe.thread_id, d) = probe.result

C30_Witness ==
    /\ probe.called
    /\ probe.text = U_ShowThem
    /\ probe.thread_id = "tok1"
    /\ "tok1" \notin DOMAIN probe.before
    /\ "tok2" \in DOMAIN probe.before
    /\ probe.before["tok2"]
    /\ probe.after = probe.before
    /\ ~probe.result

\* ------------------------------------------------------------------ C31
\* C31: the shared tool set is provisioned once: init_shared_mcp_tools creates
\* at most one MongoMCPClient over all its calls, and once a call of it has
\* succeeded, every init_shared_mcp_tools, get_shared_mcp_tools or
\* get_all_tools call on the shared client that starts afterwards returns
\* that same list from the cache, without a request to the tool server.
C31_ProvisionedOnce ==
    /\ sharedMade <= 1
    /\ \A h \in handed :
          /\ h.after
          /\ h.op \in {"init", "shared", "all_tools"}
          /\ h.self = shared_mcp_client
          => h.cached /\ h.tools = firstTools

\* ------------------------------------------------------------------ C32
\* C32: the tool lists get_tools / get_all_tools have handed out, and the ones
\* a MongoMCPClient still serves from its cache, come from a connection that
\* close() has not closed.
C32_ServedToolsOpen ==
    /\ \A h \in handed : h.op \in {"tools", "all_tools"} => ~h.closed
    /\ \A c \in DOMAIN mcp :
          /\ mcp[c].tools # 0 => ~connection[mcp[c].tools].closed
          /\ mcp[c].all_tools # 0 => ~connection[mcp[c].all_tools].closed

\* ------------------------------------------------------------------ C40
\* C40: a step of register, connect, disconnect or queue_message changes the
\* transport binding and the queue of no session but the one the call names,
\* and a disconnect leaves the queue of its own session as it was.
C40_SessionsIsolated ==
    [][/\ \A b \in Sessions :
             \/ active_connections'[b] # active_connections[b]
             \/ message_queue'[b] # message_queue[b]
             => last'.s = b
       /\ last'.op = "disconnect" => message_queue' = message_queue]_vars

\* s1 disconnects with messages queued for it, while s2 is bound and has a
\* queue of its own.
C40_Witness ==
    /\ last.op = "disconnect"
    /\ last.s = "s1"
    /\ message_queue["s1"] # <<>>
    /\ message_queue["s2"] # <<>>
    /\ active_connections["s2"] # None

\* ------------------------------------------------------------------ C33
\* The steps of one request of thread t.
RequestStep(t) ==
    \/ Validate(t)
    \/ \E fail \in Failures, e \in ErrTexts : ReqInit(t, fail, e)
    \/ \E res \in Outcomes : AinvokeFirst(t, res)
    \/ FallbackNext(t)
    \/ \E fail \in Failures : FallbackRotate(t, fail)
    \/ \E res \in Outcomes : FallbackInvoke(t, res)
    \/ \E fail \in Failures, e \in ErrTexts : Check(t, fail, e)
    \/ \E fail \in Failures, e \in ErrTexts : Except(t, fail, e)

\* How far a request is from its response: the retries it has left first, then
\* its position in the attempt, then the fallback entries not yet gone through.
PosRank(r) ==
    CASE r.pos = "idle" -> 0
      [] r.pos = "except" -> 1
      [] r.pos = "check" -> 2
      [] r.pos = "fb_invoke" -> 3 + 2 * (Len(FALLBACK_MODELS) + 1 - r.fb)
      [] r.pos = "fallback" -> 4 + 2 * (Len(FALLBACK_MODELS) + 1 - r.fb)
      [] r.pos = "invoke" -> 5 + 2 * (Len(FALLBACK_MODELS) + 1)
      [] r.pos = "init" -> 6 + 2 * (Len(FALLBACK_MODELS) + 1)
      [] r.pos = "validate" -> 7 + 2 * (Len(FALLBACK_MODELS) + 1)

Rank(r) ==
    IF r.pos = "idle" THEN 0
    ELSE (MAX_RETRIES - r.retry_count) * (8 + 2 * (Len(FALLBACK_MODELS) + 1)) + PosRank(r)

IsSubSeqOfFallbacks(q) ==
    \E idx \in [1..Len(q) -> 1..Len(FALLBACK_MODELS)] :
        /\ \A i \in 1..Len(q) : q[i] = FALLBACK_MODELS[idx[i]]
        /\ \A i, j \in 1..Len(q) : i < j => idx[i] < idx[j]

\* C39: inside one ainvoke call the fallback loop goes through FALLBACK_MODELS
\* once, in order: no entry is rotated to twice and an entry equal to the
\* current model is passed over; the first fallback whose rebuild and replay
\* succeed ends the loop and its result is what ainvoke returns; when the list
\* is used up the exception of the first invocation is raised.
C39_FallbackLoop ==
    /\ [](\A t \in Threads :
            /\ NoDup(req[t].fbs) /\ IsSubSeqOfFallbacks(req[t].fbs)
            /\ req[t].pos \in {"fallback", "fb_invoke"}
               => req[t].text = req[t].orig /\ IsModelUnavailable(req[t].orig))
    /\ [][\A t \in Threads :
            LET r == req[t]
                q == req'[t]
            IN  /\ (r.pos = "fallback" /\ q.pos \in {"fallback", "fb_invoke"}
                    /\ q # r)
                   => IF q.fbs = r.fbs
                      THEN FALLBACK_MODELS[r.fb] = model_name /\ q.fb = r.fb + 1
                           /\ model_name' = model_name
                      ELSE /\ q.fbs = Append(r.fbs, FALLBACK_MODELS[r.fb])
                           /\ FALLBACK_MODELS[r.fb] # model_name
                           /\ model_name' = FALLBACK_MODELS[r.fb]
                           /\ q.fb = IF q.pos = "fb_invoke" THEN r.fb ELSE r.fb + 1
                /\ (r.pos = "fb_invoke" /\ q.pos = "fallback") => q.fb = r.fb + 1
                /\ (r.pos = "fb_invoke" /\ q.pos = "check")
                   => q.text = q.fbOut /\ q.text \in ReplyTexts
                /\ (r.pos = "fb_invoke" /\ q # r) => q.pos \in {"fallback", "check"}
                /\ (r.pos = "fallback" /\ q.pos = "except")
                   => /\ r.fb > Len(FALLBACK_MODELS)
                      /\ q.text = r.orig
                      /\ q.tried = Tried("exception", r.orig)]_vars

\* Every fallback was rotated to and failed, the last one with an error of
\* another class, and the first invocation's error is what was raised.
C39_Witness ==
    \E t \in Threads :
        /\ req[t].pos = "except"
        /\ Len(req[t].fbs) = Len(FALLBACK_MODELS)
        /\ req[t].text = {"model_not_found"}

\* ------------------------------------------------------------------ C38
\* C38: a forced reinitialisation leaves model_name as it is and builds on it:
\* the model it caches and the handles of the supervisor it returns are of the
\* current model, which after a rotation is the fallback and not the
\* configured model; the supervisor is a new one.
C38_ForcedReinitKeepsModel ==
    [][\A t \in Threads :
          (/\ req[t].pos \in {"check", "except"}
           /\ ShouldRetry(req[t].text, req[t].retry_count)
           /\ req'[t] # req[t])
          => /\ model_name' = model_name
             /\ model' # 0 => model' # model /\ modelName'[model'] = model_name
             /\ supervisor' # 0
                => supervisor' # supervisor /\ OnModel(supervisor, model_name)']_vars

\* The retry has just begun on a registry rebuilt after a rotation.
C38_Witness ==
    \E t \in Threads :
        /\ req[t].pos = "validate"
        /\ req[t].retry_count = 1
        /\ forced
        /\ model_name # PrimaryModel
        /\ supervisor # 0
        /\ OnModel(supervisor, model_name)

\* ------------------------------------------------------------------ C35
\* C35: while no thread holds _init_lock, _initialized implies that
\* _supervisor is set, and every initialize_supervisor call that returns,
\* returns a supervisor and not None; so the handler's test
\* `if supervisor is None` never succeeds.
C35_InitializedHasSupervisor ==
    /\ (init_lock = None /\ initialized) => supervisor # 0
    /\ \A t \in Threads :
          (ret[t].fn = "initialize_supervisor" /\ ret[t].kind = "result")
             => ret[t].value # 0

\* A forced reinitialisation has returned the supervisor it built.
C35_Witness ==
    /\ init_lock = None
    /\ initialized
    /\ forced
    /\ snap.outcome = "returned"
    /\ \E t \in Threads :
          /\ ret[t].fn = "initialize_supervisor"
          /\ ret[t].kind = "result"
          /\ ret[t].value = supervisor
          /\ supervisor # snap.before[1]

\* ------------------------------------------------------------------ C36
\* The supervisor built last, 0 when none has been built.
LatestBuilt ==
    IF DOMAIN proxies = {} THEN 0
    ELSE CHOOSE x \in DOMAIN proxies : \A y \in DOMAIN proxies : y <= x

\* C36: at most one thread is inside initialize_supervisor past the lock, and
\* it is the holder of _init_lock, so constructions, first or forced, never
\* overlap; a call that returns a supervisor returns the one built last, not
\* one that a forced reinitialisation has discarded.
C36_ConstructionsSerialized ==
    /\ [](/\ Cardinality({t \in Threads : entry[t].fn = "initialize_supervisor"}) <= 1
          /\ \A t \in Threads :
                entry[t].fn = "initialize_supervisor" => init_lock = t)
    /\ [][\A t \in Threads :
            (/\ entry[t].fn = "initialize_supervisor"
             /\ entry'[t].fn = None
             /\ ret'[t].kind = "result")
            => /\ ret'[t].value = LatestBuilt'
               /\ ret'[t].value = supervisor'
               /\ init_lock' = None]_vars

\* After a forced reinitialisation built the second supervisor, a later call
\* found it cached and returned it.
C36_Witness ==
    /\ forced
    /\ builds = 2
    /\ snap.outcome = "returned"
    /\ snap.before[2]
    /\ snap.before[1] = supervisor
    /\ supervisor = LatestBuilt
    /\ \E t \in Threads :
          /\ ret[t].fn = "initialize_supervisor"
          /\ ret[t].kind = "result"
          /\ ret[t].value = supervisor

\* ------------------------------------------------------------------ C37
\* C37: when initialize_supervisor(force_reinit=True) raises, the registry is
\* left uninitialised: _supervisor is None, _initialized is False and the
\* cached _model, _data_agent and _supervisor_agent are None, so that the next
\* call constructs all of them.
C37_FailedForcedReinitUninitialised ==
    [][\A t \in Threads :
          (/\ entry[t].fn = "initialize_supervisor"
           /\ entry[t].force
           /\ entry'[t].fn = None
           /\ ret'[t].kind = "exception")
          => /\ supervisor' = 0
             /\ ~initialized'
             /\ model' = 0
             /\ data_agent' = 0
             /\ supervisor_agent' = 0]_vars

\* ------------------------------------------------------------------ C34
\* The routing state once ainvoke has stored the probe's decision (line 236).
ProbeStored ==
    IF probe.thread_id # None
    THEN RouteStored(probe.after, probe.thread_id, probe.result)
    ELSE probe.after

\* C34: when the decision is_db_query took for an utterance has been stored
\* as the thread's routing state, classifying the same utterance on the same
\* thread again gives the same decision, so a replay of the request goes to
\* the same agent.
C34_StableUnderReplay ==
    probe.called
    => is_db_query(probe.text, probe.thread_id, ProbeStored) = probe.result

\* A follow-up wording on a thread whose previous turn was direct: direct, and
\* direct again once that is stored.
C34_Witness ==
    /\ probe.called
    /\ probe.text = U_ShowThem
    /\ probe.thread_id = "tok1"
    /\ probe.thread_id \in DOMAIN probe.before
    /\ ~probe.before[probe.thread_id]
    /\ HasFollowUpIndicator(ProbeText)
    /\ ~probe.result

====
